---------------------------- MODULE Spec2Model ----------------------------
(***************************************************************************)
(* Service registry and message routing fabric of hanseilers/MCPPoc.       *)
(*                                                                         *)
(* Part 1: the registry service (registry-service/app): the in-memory      *)
(* directory RegistryService and the FastAPI endpoints in front of it.     *)
(***************************************************************************)
EXTENDS Integers, Sequences, FiniteSets, TLC

(***************************************************************************)
(* Bounds of the model.                                                    *)
(***************************************************************************)
\* number of ids uuid.uuid4() hands out before the model stops registering
MaxIds == 2
\* largest value of the wall clock datetime.now()
MaxClock == 1

(***************************************************************************)
(* Values.                                                                 *)
(***************************************************************************)
\* ids the registry can issue; 0 is an id no uuid4() call ever returns
Ids == 1..MaxIds
ArgIds == 0..MaxIds

\* registry-service/app/models.py: ServiceType, ServiceStatus
ServiceType == {"mcp", "rest", "graphql"}
ServiceStatus == {"online", "offline", "degraded"}

\* registration bodies the services of the repository post
ServiceRegistration ==
    { [name |-> "MCP Server 1 (REST)", url |-> "http://localhost:8000",
       type |-> "mcp", capabilities |-> <<"text_generation">>],
      [name |-> "REST API", url |-> "http://localhost:8001",
       type |-> "rest", capabilities |-> <<"generate", "summarize">>] }

\* Optional[...] values: None is the empty sequence, a value v is <<v>>
None == <<>>
Some(v) == <<v>>

VARIABLES
    services,       \* RegistryService.services: the dict id -> RegisteredService
    uuids,          \* how many ids uuid.uuid4() has returned so far
    now,            \* the wall clock read by datetime.now()
    last,           \* the last request served and its answer
    returned,       \* history: the descriptors the register calls returned, in
                    \* order, kept while no other mutation has been served
    deregistered,   \* history: the ids a deregister call removed
    onlyRegisters,  \* history: TRUE while register is the only mutation served
    reqs,           \* concurrent clients: each client's request and the place
                    \* its handler has reached
    running,        \* the client whose handler holds the event loop, or NoClient
    serial,         \* history: the dict after running the answered calls one
                    \* after another, in the order they were answered
    answersOk,      \* history: every answer so far is the one that serial run gave
    dispatcherA,    \* MCP server 1: the message its handler is serving, the
                    \* handler's place and local variables, the calls it has
                    \* made for the message and the payload it answers with
    fabric,         \* the processes that register at startup: whether each
                    \* has started and the global service_id it holds
    determined,     \* the classifier on its own: the last call of
                    \* determine_action, its input, the backend's reply and
                    \* the triple returned; None before the first call
    registryUp,     \* the registry can be reached and answers
    tasks,          \* each process's heartbeat_task: the place it has
                    \* reached and how its last heartbeat attempt ended
    dispatcherB,    \* MCP server 2: the request posted to it by a client,
                    \* with the status and payload it is answered with;
                    \* None while it serves none
    simpleClient    \* the simple client: the last request to /api/send, how
                    \* the MCP server answered it and the body returned;
                    \* None before the first request

registryVars == <<services, uuids, now, last, returned, deregistered, onlyRegisters>>
concurrencyVars == <<reqs, running, serial, answersOk>>
\* the variables the registry endpoints of Spec do not touch
dispatcherVars == <<dispatcherA, fabric>>
\* the components that are modelled on their own
classifierVars == <<determined>>
lifecycleVars == <<registryUp, tasks>>
peerVars == <<dispatcherB>>
frontVars == <<simpleClient>>
componentVars == <<classifierVars, lifecycleVars, peerVars, frontVars>>
notSequentialVars == <<concurrencyVars, dispatcherVars, componentVars>>

vars == <<registryVars, concurrencyVars, dispatcherVars, componentVars>>

(***************************************************************************)
(* Python's dict, as RegistryService uses it: a sequence of key/value      *)
(* entries in insertion order, with at most one entry per key.             *)
(***************************************************************************)
DictKeys(d) == { d[i].key : i \in 1..Len(d) }

\* `k in d`
DictHas(d, k) == \E i \in 1..Len(d) : d[i].key = k

\* `d[k]` for a key that is present
DictGet(d, k) == d[CHOOSE i \in 1..Len(d) : d[i].key = k].value

\* `d.get(k)`
DictGetOpt(d, k) == IF DictHas(d, k) THEN Some(DictGet(d, k)) ELSE None

\* `d[k] = v`: replaces the value in place, or appends a new entry
DictSet(d, k, v) ==
    IF DictHas(d, k)
    THEN [i \in 1..Len(d) |-> IF d[i].key = k THEN [key |-> k, value |-> v] ELSE d[i]]
    ELSE Append(d, [key |-> k, value |-> v])

\* `del d[k]`
DictDel(d, k) == SelectSeq(d, LAMBDA e : e.key # k)

\* `list(d.values())`
DictValues(d) == [i \in 1..Len(d) |-> d[i].value]

Range(s) == { s[i] : i \in 1..Len(s) }

(***************************************************************************)
(* RegistryService (registry-service/app/services/registry.py).  Each      *)
(* method is a function of the dict (and of what uuid4() and now() gave    *)
(* it) to the new dict and the returned value.                             *)
(***************************************************************************)
\* mutant: the new descriptor replaces the dict instead of joining it
register_service_replacing(svcs, service, service_id, t) ==
    LET registered_service ==
            [id |-> service_id, name |-> service.name, url |-> service.url,
             type |-> service.type, capabilities |-> service.capabilities,
             status |-> "online", last_seen |-> t]
    IN  [services |-> <<[key |-> service_id, value |-> registered_service]>>,
         ret |-> registered_service]

\* mutant: the capabilities of the registration are not copied
register_service_no_capabilities(svcs, service, service_id, t) ==
    LET registered_service ==
            [id |-> service_id, name |-> service.name, url |-> service.url,
             type |-> service.type, capabilities |-> <<>>,
             status |-> "online", last_seen |-> t]
    IN  [services |-> DictSet(svcs, service_id, registered_service),
         ret |-> registered_service]

register_service(svcs, service, service_id, t) ==
    LET registered_service ==
            [id |-> service_id,
             name |-> service.name,
             url |-> service.url,
             type |-> service.type,
             capabilities |-> service.capabilities,
             status |-> "online",
             last_seen |-> t]
    IN  [services |-> DictSet(svcs, service_id, registered_service),
         ret |-> registered_service]

\* mutant: a successful deregistration empties the dict
deregister_service_clear(svcs, service_id) ==
    IF DictHas(svcs, service_id)
    THEN [services |-> <<>>, ret |-> TRUE]
    ELSE [services |-> svcs, ret |-> FALSE]

deregister_service(svcs, service_id) ==
    IF DictHas(svcs, service_id)
    THEN [services |-> DictDel(svcs, service_id), ret |-> TRUE]
    ELSE [services |-> svcs, ret |-> FALSE]

get_service(svcs, service_id) == DictGetOpt(svcs, service_id)

get_all_services(svcs) == DictValues(svcs)

\* mutant: the type filter is left out
get_services_by_type_unfiltered(svcs, service_type) == DictValues(svcs)

get_services_by_type(svcs, service_type) ==
    SelectSeq(DictValues(svcs), LAMBDA service : service.type = service_type)

\* mutant: the update stores a descriptor rebuilt without its id
update_service_status_reid(svcs, service_id, status, t) ==
    IF DictHas(svcs, service_id)
    THEN LET s1 == DictSet(svcs, service_id,
                           [DictGet(svcs, service_id) EXCEPT
                               !.id = 0, !.status = status, !.last_seen = t])
         IN  [services |-> s1, ret |-> Some(DictGet(s1, service_id))]
    ELSE [services |-> svcs, ret |-> None]

\* mutant: the update resets last_seen instead of refreshing it
update_service_status_stale(svcs, service_id, status, t) ==
    IF DictHas(svcs, service_id)
    THEN LET s1 == DictSet(svcs, service_id,
                           [DictGet(svcs, service_id) EXCEPT
                               !.status = status, !.last_seen = 0])
         IN  [services |-> s1, ret |-> Some(DictGet(s1, service_id))]
    ELSE [services |-> svcs, ret |-> None]

\* mutant: the update sets the status of every descriptor of the store
update_service_status_every(svcs, service_id, status, t) ==
    IF DictHas(svcs, service_id)
    THEN LET s1 == [i \in 1..Len(svcs) |->
                       [svcs[i] EXCEPT !.value.status = status]]
             s2 == DictSet(s1, service_id,
                           [DictGet(s1, service_id) EXCEPT !.last_seen = t])
         IN  [services |-> s2, ret |-> Some(DictGet(s2, service_id))]
    ELSE [services |-> svcs, ret |-> None]

update_service_status(svcs, service_id, status, t) ==
    IF DictHas(svcs, service_id)
    THEN LET s1 == DictSet(svcs, service_id,
                           [DictGet(svcs, service_id) EXCEPT !.status = status])
             s2 == DictSet(s1, service_id,
                           [DictGet(s1, service_id) EXCEPT !.last_seen = t])
         IN  [services |-> s2, ret |-> Some(DictGet(s2, service_id))]
    ELSE [services |-> svcs, ret |-> None]

\* mutant: a heartbeat refreshes last_seen of every descriptor
heartbeat_all(svcs, service_id, t) ==
    IF DictHas(svcs, service_id)
    THEN LET s1 == [i \in 1..Len(svcs) |->
                       [svcs[i] EXCEPT !.value.last_seen = t]]
         IN  [services |-> s1, ret |-> Some(DictGet(s1, service_id))]
    ELSE [services |-> svcs, ret |-> None]

\* mutant: a heartbeat also marks the service online again
heartbeat_revive(svcs, service_id, t) ==
    IF DictHas(svcs, service_id)
    THEN LET s1 == DictSet(svcs, service_id,
                           [DictGet(svcs, service_id) EXCEPT
                               !.last_seen = t, !.status = "online"])
         IN  [services |-> s1, ret |-> Some(DictGet(s1, service_id))]
    ELSE [services |-> svcs, ret |-> None]

heartbeat(svcs, service_id, t) ==
    IF DictHas(svcs, service_id)
    THEN LET s1 == DictSet(svcs, service_id,
                           [DictGet(svcs, service_id) EXCEPT !.last_seen = t])
         IN  [services |-> s1, ret |-> Some(DictGet(s1, service_id))]
    ELSE [services |-> svcs, ret |-> None]


(***************************************************************************)
(* uuid.uuid4() and datetime.now().                                        *)
(***************************************************************************)
\* the id the (n+1)-th uuid4() call returns: one never returned before
uuid4(n) == n + 1

\* what datetime.now() can return: the clock has a finite resolution, so a
\* read returns the value of the previous read or a later one
ClockReads == { t \in {now, now + 1} : t <= MaxClock }

(***************************************************************************)
(* The record of a served request: the endpoint, its inputs, the HTTP      *)
(* status and the body it answered with; for a registration also the       *)
(* clock value read just before the call (t0).                             *)
(***************************************************************************)
Call(op, arg, req, status, type, http, ret, ok) ==
    [op |-> op, arg |-> arg, req |-> req, status |-> status, type |-> type,
     http |-> http, ret |-> ret, ok |-> ok,
     t0 |-> IF op = "register" THEN now ELSE 0]

NoCall == [op |-> "init", arg |-> 0, req |-> None, status |-> "", type |-> "",
           http |-> 0, ret |-> None, ok |-> FALSE, t0 |-> 0]

\* the clients that send requests at the same time
Clients == {"c1", "c2"}
NoClient == "none"

\* a client with no request under way
Idle == [pc |-> "idle", op |-> "", arg |-> 0, status |-> "", loc |-> None, t |-> 0]

RegistryInit ==
    /\ services = <<>>
    /\ uuids = 0
    /\ now = 0
    /\ last = NoCall
    /\ returned = <<>>
    /\ deregistered = {}
    /\ onlyRegisters = TRUE

ConcurrencyInit ==
    /\ reqs = [c \in Clients |-> Idle]
    /\ running = NoClient
    /\ serial = <<>>
    /\ answersOk = TRUE

\* JSON null / Python None as a value of a content map
JsonNull == "<null>"

\* the JSON object with no keys
EmptyObject == [k \in {} |-> ""]

\* MCP server 1 with no message being handled
NoMessage == [message_id |-> "", content |-> EmptyObject]
DispatcherIdle ==
    [pc |-> "idle", message |-> NoMessage, content |-> EmptyObject,
     action |-> JsonNull, params |-> EmptyObject, service_type |-> "",
     target |-> 0, calls |-> <<>>, payload |-> EmptyObject,
     x_trace_id |-> None, outer_trace_id |-> "", trace_id |-> "",
     degraded |-> FALSE, sent |-> None, http |-> 0, headers |-> EmptyObject,
     peer_registered |-> FALSE, registry_call |-> "", mcp_servers |-> None,
     backend |-> "", path |-> ""]

\* the processes that register with the registry when they start
Processes == {"mcp-server-1", "mcp-server-2", "graphql-api-server"}

\* the registration each of them posts
Registration(p) ==
    CASE p = "mcp-server-1" ->
           [name |-> "MCP Server 1 (REST)", url |-> "http://mcp-server-1:8000",
            type |-> "mcp", capabilities |-> <<"text_generation">>]
      [] p = "mcp-server-2" ->
           [name |-> "MCP Server 2 (GraphQL)", url |-> "http://mcp-server-2:8000",
            type |-> "mcp", capabilities |-> <<"text_generation">>]
      [] OTHER ->
           [name |-> "GraphQL API Server", url |-> "http://graphql-api-server:8000",
            type |-> "graphql", capabilities |-> <<"text_generation">>]

\* service_id = None in every process; 0 stands for None
NotStarted == [started |-> FALSE, service_id |-> 0]

DispatcherInit ==
    /\ dispatcherA = DispatcherIdle
    /\ fabric = [p \in Processes |-> NotStarted]

NoTask == [pc |-> "none", beat |-> "", bye |-> ""]

ComponentInit ==
    /\ determined = None
    /\ registryUp = TRUE
    /\ tasks = [p \in Processes |-> NoTask]
    /\ dispatcherB = None
    /\ simpleClient = None

Init ==
    /\ ComponentInit
    /\ RegistryInit
    /\ ConcurrencyInit
    /\ DispatcherInit

(***************************************************************************)
(* The endpoints (registry-service/app/main.py).  A handler is an async    *)
(* function without an await: it runs to its end in one step.              *)
(***************************************************************************)
\* POST /registry/services
api_register_service(service) ==
    /\ uuids < MaxIds
    /\ \E t \in ClockReads :
         LET r == register_service(services, service, uuid4(uuids), t)
         IN  /\ services' = r.services
             /\ uuids' = uuids + 1
             /\ now' = t
             /\ last' = Call("register", 0, Some(service), "", "", 201,
                             Some(r.ret), TRUE)
             /\ returned' = IF onlyRegisters THEN Append(returned, r.ret) ELSE <<>>
    /\ UNCHANGED <<notSequentialVars, deregistered, onlyRegisters>>

\* DELETE /registry/services/{service_id}
api_deregister_service(service_id) ==
    LET r == deregister_service(services, service_id)
        success == r.ret
    IN  /\ services' = r.services
        /\ last' = Call("deregister", service_id, None, "", "",
                        IF ~success THEN 404 ELSE 200, None, success)
        /\ deregistered' = IF success THEN deregistered \cup {service_id}
                           ELSE deregistered
        /\ onlyRegisters' = FALSE
        /\ returned' = <<>>
        /\ UNCHANGED <<notSequentialVars, uuids, now>>

\* mutant: a read of a descriptor marks it offline
api_get_service_marking(service_id) ==
    LET service == get_service(services, service_id)
    IN  /\ last' = Call("get_service", service_id, None, "", "",
                        IF service = None THEN 404 ELSE 200, service,
                        service # None)
        /\ services' = update_service_status(services, service_id, "offline", now).services
        /\ UNCHANGED <<notSequentialVars, uuids, now, returned, deregistered, onlyRegisters>>

\* GET /registry/services/{service_id}
api_get_service(service_id) ==
    LET service == get_service(services, service_id)
    IN  /\ last' = Call("get_service", service_id, None, "", "",
                        IF service = None THEN 404 ELSE 200, service,
                        service # None)
        /\ UNCHANGED <<notSequentialVars, services, uuids, now, returned, deregistered, onlyRegisters>>

\* GET /registry/services[?type=T]; "" stands for no type parameter
api_get_all_services(type) ==
    /\ last' =
         IF type # ""
         THEN IF type \in ServiceType
              THEN Call("get_all_services", 0, None, "", type, 200,
                        get_services_by_type(services, type), TRUE)
              ELSE Call("get_all_services", 0, None, "", type, 400, None, FALSE)
         ELSE Call("get_all_services", 0, None, "", type, 200,
                   get_all_services(services), TRUE)
    /\ UNCHANGED <<notSequentialVars, services, uuids, now, returned, deregistered, onlyRegisters>>

\* PUT /registry/services/{service_id}/status
api_update_service_status(service_id, status) ==
    /\ \E t \in ClockReads :
         LET r == update_service_status(services, service_id, status, t)
             updated_service == r.ret
         IN  /\ services' = r.services
             /\ now' = IF updated_service = None THEN now ELSE t
             /\ last' = Call("update_service_status", service_id, None, status, "",
                             IF updated_service = None THEN 404 ELSE 200,
                             updated_service, updated_service # None)
    /\ onlyRegisters' = FALSE
    /\ returned' = <<>>
    /\ UNCHANGED <<notSequentialVars, uuids, deregistered>>

\* POST /registry/services/{service_id}/heartbeat
service_heartbeat(service_id) ==
    /\ \E t \in ClockReads :
         LET r == heartbeat(services, service_id, t)
             service == r.ret
         IN  /\ services' = r.services
             /\ now' = IF service = None THEN now ELSE t
             /\ last' = Call("heartbeat", service_id, None, "", "",
                             IF service = None THEN 404 ELSE 200, service,
                             service # None)
    /\ onlyRegisters' = FALSE
    /\ returned' = <<>>
    /\ UNCHANGED <<notSequentialVars, uuids, deregistered>>

\* time passes while no request is served
Tick ==
    /\ now < MaxClock
    /\ now' = now + 1
    /\ last' = Call("tick", 0, None, "", "", 0, None, FALSE)
    /\ UNCHANGED <<notSequentialVars, services, uuids, returned, deregistered, onlyRegisters>>

\* what a client can send as the type parameter
TypeParams == ServiceType \cup {"", "bogus"}

Next ==
    \/ \E service \in ServiceRegistration : api_register_service(service)
    \/ \E service_id \in ArgIds : api_deregister_service(service_id)
    \/ \E service_id \in ArgIds : api_get_service(service_id)
    \/ \E type \in TypeParams : api_get_all_services(type)
    \/ \E service_id \in ArgIds, status \in ServiceStatus :
         api_update_service_status(service_id, status)
    \/ \E service_id \in ArgIds : service_heartbeat(service_id)
    \/ Tick

Spec == Init /\ [][Next]_vars

(***************************************************************************)
(* Part 2: concurrent requests.  Several clients have a request under way  *)
(* at once.  The registry runs on one asyncio event loop (uvicorn.run(app) *)
(* with one worker): a handler keeps the loop from its first statement     *)
(* until it awaits or returns.  Here the handlers and the store methods    *)
(* they call are taken one statement at a time; a place is named after the *)
(* line of registry.py it stands before.                                   *)
(***************************************************************************)
\* the registration body and the statuses the concurrent clients send
ConcurrentRegistration ==
    CHOOSE service \in ServiceRegistration : service.type = "mcp"
ConcurrentStatuses == {"offline", "degraded"}

\* the first statement of the store method an endpoint calls
Entry(op) ==
    CASE op = "register" -> "L14"
      [] op = "deregister" -> "L29"
      [] op = "update_service_status" -> "L51"
      [] op = "heartbeat" -> "L59"

\* the statements that call datetime.now()
ReadsClock(pc) == pc \in {"L15", "L53", "L60"}

\* mutant: the handler gives up the event loop between any two statements
HandlerAwaitsAnywhere(pc) == TRUE

\* whether the handler awaits (and so gives up the event loop) before the
\* statement at pc: the handlers and the store methods contain no await
HandlerAwaits(pc) == FALSE

\* a handler ends: with a status and a body, or with an exception, which
\* FastAPI answers with status 500
Return(r, svcs, n, http, ret) ==
    [req |-> [r EXCEPT !.pc = "return"], services |-> svcs, uuids |-> n,
     http |-> http, ret |-> ret]
Goto(r, pc, svcs, n) ==
    [req |-> [r EXCEPT !.pc = pc], services |-> svcs, uuids |-> n,
     http |-> 0, ret |-> None]
KeyError(r, svcs, n) == Return(r, svcs, n, 500, None)

\* the statement at r.pc, run on the dict svcs with n ids issued and, where
\* it reads the clock, with t the value read
Statement(r, svcs, n, t) ==
    CASE r.pc = "L14" ->
           Goto([r EXCEPT !.arg = uuid4(n)], "L15", svcs, n + 1)
      [] r.pc = "L15" ->
           Goto([r EXCEPT !.t = t,
                          !.loc = Some([id |-> r.arg,
                                        name |-> ConcurrentRegistration.name,
                                        url |-> ConcurrentRegistration.url,
                                        type |-> ConcurrentRegistration.type,
                                        capabilities |->
                                            ConcurrentRegistration.capabilities,
                                        status |-> "online",
                                        last_seen |-> t])],
                "L24", svcs, n)
      [] r.pc = "L24" ->
           Return(r, DictSet(svcs, r.arg, r.loc[1]), n, 201, r.loc)
      [] r.pc = "L29" ->
           IF DictHas(svcs, r.arg)
           THEN Goto(r, "L30", svcs, n)
           ELSE Return(r, svcs, n, 404, None)
      [] r.pc = "L30" ->
           IF DictHas(svcs, r.arg)
           THEN Return(r, DictDel(svcs, r.arg), n, 200, None)
           ELSE KeyError(r, svcs, n)
      [] r.pc = "L51" ->
           IF DictHas(svcs, r.arg)
           THEN Goto(r, "L52", svcs, n)
           ELSE Return(r, svcs, n, 404, None)
      [] r.pc = "L52" ->
           IF DictHas(svcs, r.arg)
           THEN Goto(r, "L53",
                     DictSet(svcs, r.arg,
                             [DictGet(svcs, r.arg) EXCEPT !.status = r.status]),
                     n)
           ELSE KeyError(r, svcs, n)
      [] r.pc = "L53" ->
           IF DictHas(svcs, r.arg)
           THEN Goto([r EXCEPT !.t = t], "L54",
                     DictSet(svcs, r.arg,
                             [DictGet(svcs, r.arg) EXCEPT !.last_seen = t]),
                     n)
           ELSE KeyError(r, svcs, n)
      [] r.pc = "L54" ->
           IF DictHas(svcs, r.arg)
           THEN Return(r, svcs, n, 200, Some(DictGet(svcs, r.arg)))
           ELSE KeyError(r, svcs, n)
      [] r.pc = "L59" ->
           IF DictHas(svcs, r.arg)
           THEN Goto(r, "L60", svcs, n)
           ELSE Return(r, svcs, n, 404, None)
      [] r.pc = "L60" ->
           IF DictHas(svcs, r.arg)
           THEN Goto([r EXCEPT !.t = t], "L61",
                     DictSet(svcs, r.arg,
                             [DictGet(svcs, r.arg) EXCEPT !.last_seen = t]),
                     n)
           ELSE KeyError(r, svcs, n)
      [] r.pc = "L61" ->
           IF DictHas(svcs, r.arg)
           THEN Return(r, svcs, n, 200, None)
           ELSE KeyError(r, svcs, n)

\* the call of request r run in one piece on the dict svcs, as the endpoints
\* of Spec run it: the new dict, the status and the body
Atomically(r, svcs) ==
    CASE r.op = "register" ->
           LET a == register_service(svcs, ConcurrentRegistration, r.arg, r.t)
           IN  [services |-> a.services, http |-> 201, ret |-> Some(a.ret)]
      [] r.op = "deregister" ->
           LET a == deregister_service(svcs, r.arg)
           IN  [services |-> a.services,
                http |-> IF a.ret THEN 200 ELSE 404, ret |-> None]
      [] r.op = "update_service_status" ->
           LET a == update_service_status(svcs, r.arg, r.status, r.t)
           IN  [services |-> a.services,
                http |-> IF a.ret = None THEN 404 ELSE 200, ret |-> a.ret]
      [] r.op = "heartbeat" ->
           LET a == heartbeat(svcs, r.arg, r.t)
           IN  [services |-> a.services,
                http |-> IF a.ret = None THEN 404 ELSE 200, ret |-> None]

\* a client sends a request; it waits for the event loop
Send(c, op, arg, status) ==
    /\ reqs[c].pc = "idle"
    /\ op = "register" =>
          uuids + Cardinality({d \in Clients : reqs[d].pc = "L14"}) < MaxIds
    /\ reqs' = [reqs EXCEPT ![c] = [Idle EXCEPT !.pc = Entry(op), !.op = op,
                                                 !.arg = arg, !.status = status]]
    /\ UNCHANGED <<services, uuids, now, last, returned, deregistered,
                   onlyRegisters, running, serial, answersOk, dispatcherVars,
                   componentVars>>

\* the event loop runs the next statement of c's handler: c holds the loop,
\* or the loop is free
Step(c) ==
    /\ reqs[c].pc # "idle"
    /\ running \in {c, NoClient}
    /\ \E t \in IF ReadsClock(reqs[c].pc) THEN ClockReads ELSE {now} :
         LET x == Statement(reqs[c], services, uuids, t)
             a == Atomically(x.req, serial)
         IN  /\ services' = x.services
             /\ uuids' = x.uuids
             /\ now' = t
             /\ IF x.req.pc = "return"
                THEN /\ reqs' = [reqs EXCEPT ![c] = Idle]
                     /\ running' = NoClient
                     /\ serial' = a.services
                     /\ answersOk' = (answersOk /\ x.http = a.http /\ x.ret = a.ret)
                     /\ deregistered' =
                          IF x.req.op = "deregister" /\ x.http = 200
                          THEN deregistered \cup {x.req.arg}
                          ELSE deregistered
                ELSE /\ reqs' = [reqs EXCEPT ![c] = x.req]
                     /\ running' = IF HandlerAwaits(x.req.pc) THEN NoClient ELSE c
                     /\ UNCHANGED <<serial, answersOk, deregistered>>
    /\ UNCHANGED <<last, returned, onlyRegisters, dispatcherVars, componentVars>>

NextConcurrent ==
    \/ \E c \in Clients : Send(c, "register", 0, "")
    \/ \E c \in Clients, service_id \in Ids : Send(c, "deregister", service_id, "")
    \/ \E c \in Clients, service_id \in Ids : Send(c, "heartbeat", service_id, "")
    \/ \E c \in Clients, service_id \in Ids, status \in ConcurrentStatuses :
         Send(c, "update_service_status", service_id, status)
    \/ \E c \in Clients : Step(c)

SpecConcurrent == Init /\ [][NextConcurrent]_vars

(***************************************************************************)
(* Part 3.  MCP server 1: the action classifier and the message handler.   *)
(***************************************************************************)
\* JSON objects are functions from their keys; dict.get(k, d) and obj[k] = v
GetOr(obj, k, d) == IF k \in DOMAIN obj THEN obj[k] ELSE d
With(obj, k, v) == [x \in DOMAIN obj \cup {k} |-> IF x = k THEN v ELSE obj[x]]

\* {**f, **g}: the keys of both, g's value where both have the key
Merge(f, g) ==
    [k \in DOMAIN f \cup DOMAIN g |-> IF k \in DOMAIN g THEN g[k] ELSE f[k]]

\* the input texts of the messages
Inputs ==
    {"", "Make a poem about flowers", "Translate 'Hello world' to Spanish",
     "Translate bonjour from French to German"}

service_capabilities ==
    [rest    |-> <<"generate_text", "summarize", "analyze_data">>,
     graphql |-> <<"generate_text", "translate_text", "classify_text",
                   "analyze_sentiment">>]

fallback_determination(input_text) ==
    [action |-> "generate_text",
     params |-> [prompt |-> input_text, max_tokens |-> 100],
     service_type |-> "rest"]

\* str.lower() on the input texts
Lower(text) ==
    CASE text = "Make a poem about flowers" -> "make a poem about flowers"
      [] text = "Translate 'Hello world' to Spanish" ->
           "translate 'hello world' to spanish"
      [] text = "Translate bonjour from French to German" ->
           "translate bonjour from french to german"
      [] OTHER -> text

\* no input text has a brace: there is no JSON to extract, and the query is
\* the whole text
extract_json(text) == JsonNull
QueryOf(text) == text

\* "from X to Y" gives the two names in lower case; else the source is "en"
\* and the target the code of the first language named after "in"/"to"
extract_languages(text) ==
    CASE text = "Translate bonjour from French to German" -> <<"french", "german">>
      [] text = "Translate 'Hello world' to Spanish" -> <<"en", "es">>
      [] OTHER -> <<"en", "es">>

\* the lower-case text without the translation phrases, stripped
extract_text_for_translation(text) ==
    CASE text = "Translate 'Hello world' to Spanish" -> "'hello world' to spanish"
      [] text = "Translate bonjour from French to German" -> "bonjour  german"
      [] OTHER -> Lower(text)

\* no input text has a bracket, a parenthesis or a classification phrase
extract_categories(text) == <<>>
extract_text_for_classification(text) == Lower(text)

\* no input text has a sentiment phrase
extract_text_for_sentiment(text) == Lower(text)

\* a JSON value that is not an object: a list of strings, or null
JsonList(items) == [json |-> "list", items |-> items]
NullValue == [json |-> "null"]
IsMap(v) == "json" \notin DOMAIN v

\* key in params: a key of the dict, an item of the list
Contains(params, key) ==
    IF IsMap(params) THEN key \in DOMAIN params
    ELSE /\ params.json = "list"
         /\ \E i \in 1..Len(params.items) : params.items[i] = key

\* the back-fill raises TypeError or AttributeError: `in` on None, an item
\* assignment to a list with a str index, params.get on a list
ParametersRaise(action, params, input_text) ==
    /\ ~IsMap(params)
    /\ \/ params.json = "null"
       \/ CASE action = "generate_text" -> ~Contains(params, "prompt")
            [] action = "summarize" -> ~Contains(params, "text")
            [] action = "analyze_data" ->
                 ~Contains(params, "data") \/ ~Contains(params, "query")
            [] action = "translate_text" ->
                 \/ ~Contains(params, "text")
                 \/ ~Contains(params, "source_language")
                 \/ ~Contains(params, "target_language")
            [] action = "classify_text" ->
                 \/ ~Contains(params, "text")
                 \/ /\ ~Contains(params, "categories")
                    /\ extract_categories(input_text) # <<>>
            [] action = "analyze_sentiment" -> ~Contains(params, "text")
            [] OTHER -> FALSE

\* the parameters with the ones the action requires filled in from the text
RequiredParameters(action, params, input_text) ==
    IF ~IsMap(params) THEN params
    ELSE IF action = "generate_text" /\ "prompt" \notin DOMAIN params
    THEN With(With(params, "prompt", input_text),
              "max_tokens", GetOr(params, "max_tokens", 100))
    ELSE IF action = "summarize" /\ "text" \notin DOMAIN params
    THEN With(With(params, "text", input_text),
              "max_length", GetOr(params, "max_length", 100))
    ELSE IF action = "analyze_data"
    THEN LET data == extract_json(input_text)
             p1 == IF "data" \notin DOMAIN params
                   THEN With(params, "data",
                             IF data = JsonNull THEN EmptyObject ELSE data)
                   ELSE params
         IN  IF "query" \notin DOMAIN p1
             THEN With(p1, "query", QueryOf(input_text)) ELSE p1
    ELSE IF action = "translate_text"
    THEN LET p1 == IF "text" \notin DOMAIN params
                   THEN With(params, "text",
                             extract_text_for_translation(input_text))
                   ELSE params
             langs == extract_languages(input_text)
         IN  IF "source_language" \notin DOMAIN p1
                \/ "target_language" \notin DOMAIN p1
             THEN With(With(p1, "source_language",
                            GetOr(p1, "source_language", langs[1])),
                       "target_language", GetOr(p1, "target_language", langs[2]))
             ELSE p1
    ELSE IF action = "classify_text"
    THEN LET p1 == IF "text" \notin DOMAIN params
                   THEN With(params, "text",
                             extract_text_for_classification(input_text))
                   ELSE params
             categories == extract_categories(input_text)
         IN  IF "categories" \notin DOMAIN p1 /\ categories # <<>>
             THEN With(p1, "categories", categories) ELSE p1
    ELSE IF action = "analyze_sentiment"
    THEN IF "text" \notin DOMAIN params
         THEN With(params, "text", extract_text_for_sentiment(input_text))
         ELSE params
    ELSE params

\* what the reasoning backend answered: it failed, its text had no JSON
\* object, the object could not be read, or the object that was read
BackendActions ==
    {"generate_text", "summarize", "analyze_data", "translate_text",
     "classify_text", "analyze_sentiment", "get_status"}
BackendServiceTypes == {"rest", "graphql", "soap"}
BackendParameters ==
    {EmptyObject, [text |-> "Hello world"],
     [action |-> "summarize", text |-> "Hello world"],
     JsonList(<<"prompt", "text">>), NullValue}
BackendObjects ==
    { Merge(Merge(a, s), p) :
        a \in {EmptyObject} \cup {[action |-> x] : x \in BackendActions},
        s \in {EmptyObject} \cup {[service_type |-> x] : x \in BackendServiceTypes},
        p \in {EmptyObject} \cup {[parameters |-> x] : x \in BackendParameters} }
\* the action and service type the patterns still find in an object that
\* could not be read
Salvaged ==
    { [action |-> a, service_type |-> s] :
        a \in {"summarize", "translate_text"}, s \in {"rest", "graphql"} }
BackendReplies ==
    {[kind |-> "failed"], [kind |-> "no_json"],
     [kind |-> "unreadable", found |-> None]}
        \cup {[kind |-> "unreadable", found |-> Some(f)] : f \in Salvaged}
        \cup {[kind |-> "json", result |-> o] : o \in BackendObjects}

\* the object determine_action goes on with, if any: the one it read, or
\* the minimal one built from what the patterns found
ResultOf(reply) ==
    IF reply.kind = "json" THEN Some(reply.result)
    ELSE IF reply.kind = "unreadable" /\ reply.found # None
    THEN Some(Merge(reply.found[1], [parameters |-> EmptyObject]))
    ELSE None

\* how the reasoning backend behaved in a call: it failed (an exception or
\* a status other than 200), its text had no JSON object, the object could
\* not be read, its parameters are not a map, or it was an object with a map
BackendBehaviour(reply) ==
    IF reply.kind # "json" THEN reply.kind
    ELSE IF ~IsMap(GetOr(reply.result, "parameters", EmptyObject))
    THEN "not_a_map"
    ELSE "map"

\* determine_action without the validation of what the backend named
determine_action_unvalidated(input_text, reply) ==
    IF ResultOf(reply) = None THEN fallback_determination(input_text)
    ELSE [action |-> GetOr(ResultOf(reply)[1], "action", "generate_text"),
          params |-> GetOr(ResultOf(reply)[1], "parameters", EmptyObject),
          service_type |-> GetOr(ResultOf(reply)[1], "service_type", "rest")]

determine_action(input_text, reply) ==
    IF ResultOf(reply) = None THEN fallback_determination(input_text)
    ELSE
    LET result == ResultOf(reply)[1]
        action == GetOr(result, "action", "generate_text")
        service_type == GetOr(result, "service_type", "rest")
        params == GetOr(result, "parameters", EmptyObject)
        other_service == IF service_type = "rest" THEN "graphql" ELSE "rest"
    IN  IF action \notin Range(service_capabilities["rest"])
                           \cup Range(service_capabilities["graphql"])
        THEN fallback_determination(input_text)
        ELSE IF service_type \notin {"rest", "graphql"}
        THEN fallback_determination(input_text)
        ELSE IF action \notin Range(service_capabilities[service_type])
                /\ action \notin Range(service_capabilities[other_service])
        THEN fallback_determination(input_text)
        ELSE IF ParametersRaise(action, params, input_text)
        THEN fallback_determination(input_text)
        ELSE [action |-> action,
              params |-> RequiredParameters(action, params, input_text),
              service_type |->
                 IF action \in Range(service_capabilities[service_type])
                 THEN service_type ELSE other_service]

\* a call of determine_action on its own, with any input text and any
\* behaviour of the reasoning backend
classify(input_text, reply) ==
    /\ determined' = Some([input_text |-> input_text, reply |-> reply,
                           returned |-> determine_action(input_text, reply)])
    /\ UNCHANGED <<registryVars, concurrencyVars, dispatcherVars,
                   lifecycleVars, peerVars, frontVars>>

NextClassify == \E input_text \in Inputs, reply \in BackendReplies :
                    classify(input_text, reply)

SpecClassify == Init /\ [][NextClassify]_vars

\* the values content.action has in the messages: JSON null, the empty
\* string and action names, one of them no action of the server
ActionValues ==
    {JsonNull, "", "generate_text", "summarize", "analyze_data", "get_status",
     "translate_text", "fly"}

\* the content with the given action and input; Absent leaves the key out
Absent == "<absent>"
ContentOf(action, input) ==
    Merge(IF action = Absent THEN EmptyObject ELSE [action |-> action],
          IF input = Absent THEN EmptyObject ELSE [input |-> input])

\* a request for a translation with its parameters
TranslateContent ==
    [action |-> "translate_text", text |-> "Hello world",
     source_language |-> "en", target_language |-> "es"]

\* a request for a text with its parameters, as the tests post it
GenerateContent ==
    [action |-> "generate_text", prompt |-> "Hello from MCP test!",
     max_tokens |-> 100]

MessageIds == {"m1", "m2"}
MCPMessage ==
    { [message_id |-> m, content |-> c] :
        m \in MessageIds,
        c \in {TranslateContent, GenerateContent} \cup
              { ContentOf(a, i) : a \in ActionValues \cup {Absent},
                                  i \in Inputs \cup {Absent} } }

\* Python's truth value of content.get("action")
Truthy(v) == v \notin {JsonNull, ""}

\* the handler classifies the input whatever the action is
NeedsClassifierForAnyInput(action, content) == "input" \in DOMAIN content

\* if not action and "input" in content
NeedsClassifier(action, content) ==
    ~Truthy(action) /\ "input" \in DOMAIN content

\* a process starts: it posts its registration and keeps the id of the
\* descriptor in its global service_id; when the registry cannot be reached
\* or does not answer 201 the process goes on without an id.  The registry
\* stamps the descriptor with the present value of its clock.
PostRegistration(p, created) ==
    /\ ~fabric[p].started
    /\ IF created
       THEN /\ uuids < MaxIds
            /\ LET r == register_service(services, Registration(p),
                                         uuid4(uuids), now)
               IN  /\ services' = r.services
                   /\ uuids' = uuids + 1
                   /\ fabric' = [fabric EXCEPT ![p] =
                         [started |-> TRUE, service_id |-> r.ret.id]]
       ELSE /\ fabric' = [fabric EXCEPT ![p].started = TRUE]
            /\ UNCHANGED <<services, uuids>>
    /\ UNCHANGED <<now, last, returned, deregistered, onlyRegisters,
                   concurrencyVars, dispatcherA, classifierVars, peerVars,
                   frontVars>>

register_with_registry(p, created) ==
    /\ PostRegistration(p, created)
    /\ UNCHANGED <<registryUp, tasks>>

\* the registry becomes unreachable, or reachable again
registry_reachability ==
    /\ registryUp' = ~registryUp
    /\ UNCHANGED <<registryVars, concurrencyVars, dispatcherVars,
                   classifierVars, peerVars, frontVars, tasks>>

\* startup_event: the one registration attempt, then the heartbeat task is
\* created
startup_event(p) ==
    /\ PostRegistration(p, registryUp)
    /\ tasks' = [tasks EXCEPT ![p].pc = "send_heartbeat"]
    /\ UNCHANGED registryUp

\* mutant: a heartbeat that is answered not-found registers the process
\* anew
send_heartbeat_reregister(p) ==
    /\ tasks[p].pc = "send_heartbeat"
    /\ IF /\ fabric[p].service_id # 0
          /\ registryUp
          /\ ~DictHas(services, fabric[p].service_id)
          /\ uuids < MaxIds
       THEN LET r == register_service(services, Registration(p), uuid4(uuids), now)
            IN  /\ services' = r.services
                /\ uuids' = uuids + 1
                /\ fabric' = [fabric EXCEPT ![p].service_id = r.ret.id]
                /\ tasks' = [tasks EXCEPT ![p].pc = "sleep", ![p].beat = "404"]
       ELSE /\ tasks' = [tasks EXCEPT ![p].pc = "sleep", ![p].beat = "skipped"]
            /\ UNCHANGED <<services, uuids, fabric>>
    /\ UNCHANGED <<now, last, returned, deregistered, onlyRegisters,
                   concurrencyVars, dispatcherA, classifierVars, peerVars,
                   frontVars, registryUp>>

\* one round of heartbeat_task up to its sleep: send_heartbeat returns at
\* once while service_id is not set, else posts the heartbeat and logs a
\* failure; the check of the backend that follows catches its errors
send_heartbeat(p) ==
    /\ tasks[p].pc = "send_heartbeat"
    /\ IF fabric[p].service_id = 0
       THEN /\ tasks' = [tasks EXCEPT ![p].pc = "sleep", ![p].beat = "skipped"]
            /\ UNCHANGED services
       ELSE IF registryUp
       THEN LET r == heartbeat(services, fabric[p].service_id, now)
            IN  /\ services' = r.services
                /\ tasks' = [tasks EXCEPT
                      ![p].pc = "sleep",
                      ![p].beat = IF r.ret # None THEN "200" ELSE "404"]
       ELSE /\ tasks' = [tasks EXCEPT ![p].pc = "sleep", ![p].beat = "failed"]
            /\ UNCHANGED services
    /\ UNCHANGED <<uuids, now, last, returned, deregistered, onlyRegisters,
                   concurrencyVars, dispatcherVars, classifierVars, peerVars,
                   frontVars, registryUp>>

\* asyncio.sleep(30) is over: the next round
sleep(p) ==
    /\ tasks[p].pc = "sleep"
    /\ tasks' = [tasks EXCEPT ![p].pc = "send_heartbeat"]
    /\ UNCHANGED <<registryVars, concurrencyVars, dispatcherVars,
                   classifierVars, peerVars, frontVars, registryUp>>

NextLifecycle ==
    \/ registry_reachability
    \/ \E p \in Processes : startup_event(p)
    \/ \E p \in Processes : send_heartbeat(p)
    \/ \E p \in Processes : sleep(p)

\* the event loop of a process runs its startup handler and the rounds of
\* its heartbeat task; nothing is assumed of the registry
LifecycleFairness ==
    \A p \in Processes :
        /\ WF_vars(startup_event(p))
        /\ WF_vars(send_heartbeat(p))
        /\ WF_vars(sleep(p))

SpecLifecycle == Init /\ [][NextLifecycle]_vars /\ LifecycleFairness

\* how a call of the registry ends: with its answer, or with a status
\* other than 200, a timeout or a refused connection
RegistryCalls == {"200", "failed"}

\* the status of the answer is not looked at: the body is returned, and a
\* failed call gives what the registry holds
MCPClient_get_mcp_servers_unchecked(svcs, call) ==
    get_services_by_type(svcs, "mcp")

\* MCPClient.get_mcp_servers: the services of type mcp, [] when the call
\* failed
MCPClient_get_mcp_servers(svcs, call) ==
    IF call = "200" THEN get_services_by_type(svcs, "mcp") ELSE <<>>

\* "GraphQL" in s.get("name", ""): of the names the services register
\* with, those of MCP server 2 and of the GraphQL API server
NamesGraphQL(s) == s.name \in {"MCP Server 2 (GraphQL)", "GraphQL API Server"}

\* mutant: only a peer whose status is online is chosen
FirstGraphQL_online(mcp_servers) ==
    LET found == { i \in 1..Len(mcp_servers) :
                     NamesGraphQL(mcp_servers[i]) /\ mcp_servers[i].status = "online" }
    IN  IF found = {} THEN None
        ELSE Some(mcp_servers[CHOOSE i \in found : \A j \in found : i <= j])

\* next((s for s in mcp_servers if ...), None)
FirstGraphQL(mcp_servers) ==
    LET found == { i \in 1..Len(mcp_servers) : NamesGraphQL(mcp_servers[i]) }
    IN  IF found = {} THEN None
        ELSE Some(mcp_servers[CHOOSE i \in found : \A j \in found : i <= j])

\* what the GraphQL API client of MCP server 2 answered
GraphQLResults ==
    {[model_used |-> "graphql-api"],
     [error |-> "Failed to connect to GraphQL API",
      details |-> "Connection error: connection refused"]}

\* POST /mcp/message of MCP server 2: the payload for a message
receive_message_2(message, result) ==
    LET action == GetOr(message.content, "action", JsonNull)
    IN  IF action \in {"generate_text", "translate_text", "classify_text",
                       "analyze_sentiment", "get_status"}
        THEN [message_id |-> message.message_id, response |-> result]
        ELSE [message_id |-> message.message_id,
              error |-> "Unknown action: " \o action]

\* os.getenv("SERVICE_ID"): the variable is not set, the id of a process is
\* the one the registry gives it when it registers
SERVICE_ID == 0

\* MCPClient(): server_id or os.getenv("SERVICE_ID")
MCPClient(server_id) == IF server_id # 0 THEN server_id ELSE SERVICE_ID

\* GET /registry/services?name=<hostname>: the registry reads no name
\* parameter and lists every service; the client takes the id of the first
ServerIdFromRegistry(svcs, call) ==
    LET found == IF call = "200" THEN get_all_services(svcs) ELSE <<>>
    IN  IF Len(found) > 0 THEN found[1].id ELSE 0

\* how the POST to the peer ends: the peer answers 200, it answers another
\* status, or the request raises (timeout, refused connection, a body that
\* is not JSON)
PostOutcomes == {"200", "500", "raised"}

\* message_id of the envelope the client builds: MCPMessage's default
ForwardedMessageId == "forwarded-1"

\* MCPClient.send_message: the result, the server_id the client ends with
\* and the request posted to the peer, None when none was posted
MCPClient_send_message(server_id, target_id, content, svcs, lookup, target_call, post, peer_result) ==
    LET sid == IF server_id # 0 THEN server_id
               ELSE ServerIdFromRegistry(svcs, lookup)
        target_server == get_service(svcs, target_id)
        message == [message_id |-> ForwardedMessageId, source_id |-> sid,
                    target_id |-> target_id, content |-> content]
        request == [url |-> target_server[1].url \o "/mcp/message",
                    headers |-> EmptyObject, json |-> message]
        Returns(result, posted) ==
            [result |-> result, server_id |-> sid, posted |-> posted]
    IN  IF sid = 0
        THEN Returns([error |-> "Server ID not set. Please ensure the service is registered with the registry."], None)
        ELSE IF target_call # "200"
        THEN Returns([error |-> "Error sending message: registry"], None)
        ELSE IF target_server = None
        THEN Returns([error |-> "Failed to get target server details: 404"], None)
        ELSE IF target_server[1].url = ""
        THEN Returns([error |-> "Target server URL not found"], None)
        ELSE IF post = "raised"
        THEN Returns([error |-> "Error sending message: peer"], None)
        ELSE IF post = "500"
        THEN Returns([error |-> "Failed to send message: 500"], Some(request))
        ELSE Returns(receive_message_2(message, peer_result), Some(request))

\* what the REST API client answered
RestResults ==
    {[model_used |-> "rest-api"],
     [error |-> "Failed to connect to REST API",
      details |-> "Connection error: connection refused"],
     [error |-> "API request failed with status 500",
      details |-> "Internal Server Error"]}

\* one more call of the handler
Called(d, fn, arg) == [d EXCEPT !.calls = Append(@, [fn |-> fn, arg |-> arg])]

\* the X-Trace-ID headers of the requests, None when there is none
TraceHeaders == {None, Some("trace-in")}

\* str(uuid.uuid4()): the n-th identifier generated for a request
GeneratedTraceId(n) == IF n = 1 THEN "generated-1" ELSE "generated-2"

\* request.headers.get("X-Trace-ID", str(uuid.uuid4()))
HeaderOrGenerated(x_trace_id, n) ==
    IF x_trace_id = None THEN GeneratedTraceId(n) ELSE x_trace_id[1]

\* the response goes out through the middlewares: TracingMiddleware sets the
\* X-Trace-ID header to the identifier it put in request.state, then
\* add_trace_id, which is outside it, sets the header to its own
ThroughMiddlewares(d, status, payload) ==
    [d EXCEPT !.pc = "done", !.http = status, !.payload = payload,
              !.headers = With(With(EmptyObject, "X-Trace-ID", d.trace_id),
                               "X-Trace-ID", d.outer_trace_id)]

\* the payload goes out with the message_id of the peer's answer
Respond_with_peer_id(d, payload) ==
    ThroughMiddlewares(d, 200,
        IF "response" \in DOMAIN payload
              /\ "message_id" \in DOMAIN payload.response
        THEN [payload EXCEPT !.message_id = payload.response.message_id]
        ELSE payload)

\* the handler returns a payload
Respond(d, payload) == ThroughMiddlewares(d, 200, payload)

\* except Exception: raise HTTPException(status_code=500, detail=...)
Raise(d, e) ==
    ThroughMiddlewares(d, 500, [detail |-> "Error processing message: " \o e])

\* action if "input" in message.content else None
DeterminedAction(d) ==
    IF "input" \in DOMAIN d.message.content THEN d.action ELSE JsonNull

\* lines 217-380 up to the call of the REST API client: the branch on the
\* action of the content
Dispatch(d0) ==
    LET action == GetOr(d0.content, "action", JsonNull)
        d == [d0 EXCEPT !.action = action]
    IN  CASE action = "generate_text" ->
               [Called(d, "rest_client.generate_text",
                       GetOr(d.content, "prompt", "")) EXCEPT !.pc = "L230"]
          [] action = "summarize" ->
               [Called(d, "rest_client.summarize_text",
                       GetOr(d.content, "text", "")) EXCEPT !.pc = "L276"]
          [] action = "analyze_data" ->
               [Called(d, "rest_client.analyze_data",
                       GetOr(d.content, "query", "")) EXCEPT !.pc = "L322"]
          [] action = "get_status" ->
               [Called(d, "rest_client.get_status", "") EXCEPT !.pc = "L361"]
          [] OTHER ->
               Respond(d, [message_id |-> d.message.message_id,
                           error |-> "Unknown action: " \o action,
                           trace_id |-> d.trace_id])

\* content = {"action": action, **params} and the dispatch on it; ** on what
\* is not a mapping raises TypeError
DispatchDetermined(d) ==
    IF ~IsMap(d.params) THEN Raise(d, "TypeError")
    ELSE Dispatch([d EXCEPT !.content = Merge([action |-> d.action], d.params)])

\* POST /message up to the first await: the action of the content, the
\* classifier when there is none and there is an input, then the list of
\* peers for a "graphql" decision or the dispatch
receive_message(x_trace_id, message, reply) ==
    /\ dispatcherA.pc = "idle"
    /\ fabric["mcp-server-1"].started
    /\ LET content == message.content
           action == GetOr(content, "action", JsonNull)
           d == [DispatcherIdle EXCEPT
                   !.x_trace_id = x_trace_id,
                   !.outer_trace_id = HeaderOrGenerated(x_trace_id, 1),
                   !.trace_id = HeaderOrGenerated(x_trace_id, 2),
                   !.peer_registered =
                       (FirstGraphQL(get_services_by_type(services, "mcp")) # None),
                   !.path = "/message",
                   !.message = message, !.content = content, !.action = action]
       IN  IF NeedsClassifier(action, content)
           THEN LET user_input == GetOr(content, "input", "")
                    t == determine_action(user_input, reply)
                    c == [Called(d, "determine_action", user_input) EXCEPT
                            !.backend = BackendBehaviour(reply),
                            !.action = t.action, !.params = t.params,
                            !.service_type = t.service_type]
                IN  dispatcherA' =
                      IF t.service_type = "graphql"
                      THEN [Called(c, "get_mcp_servers", "") EXCEPT !.pc = "L161"]
                      ELSE DispatchDetermined(c)
           ELSE dispatcherA' = Dispatch(d)
    /\ UNCHANGED <<registryVars, concurrencyVars, fabric, componentVars>>

\* the list of peers arrives: forward to the first GraphQL server that has
\* an id, or fall back to the REST API
get_mcp_servers(call) ==
    /\ dispatcherA.pc = "L161"
    /\ LET mcp_servers == MCPClient_get_mcp_servers(services, call)
           mcp_server_2 == FirstGraphQL(mcp_servers)
           d == [dispatcherA EXCEPT !.registry_call = call,
                                    !.mcp_servers = Some(mcp_servers)]
       IN  dispatcherA' =
             IF mcp_server_2 # None /\ mcp_server_2[1].id # 0
             THEN IF ~IsMap(d.params)
                  THEN Raise(d, "TypeError")
                  ELSE [Called(d, "send_message",
                               Merge([action |-> d.action], d.params))
                          EXCEPT !.pc = "L177", !.target = mcp_server_2[1].id]
             ELSE DispatchDetermined([d EXCEPT !.service_type = "rest",
                                               !.degraded = TRUE])
    /\ UNCHANGED <<registryVars, concurrencyVars, fabric, componentVars>>

\* the peer's answer arrives and is returned
\* mutant: after the forward the handler is back before it and forwards
\* the envelope again
send_message_again(lookup, target_call, post, peer_result) ==
    /\ dispatcherA.pc = "L177"
    /\ dispatcherA' =
          Called([dispatcherA EXCEPT !.sent =
                    Some(MCPClient_send_message(
                            MCPClient(0), dispatcherA.target,
                            Merge([action |-> dispatcherA.action], dispatcherA.params),
                            services, lookup, target_call, post, peer_result))],
                 "send_message", "")
    /\ UNCHANGED <<registryVars, concurrencyVars, fabric, componentVars>>

send_message(lookup, target_call, post, peer_result) ==
    /\ dispatcherA.pc = "L177"
    /\ LET d == dispatcherA
           sent == MCPClient_send_message(
                      MCPClient(0), d.target,
                      Merge([action |-> d.action], d.params), services,
                      lookup, target_call, post, peer_result)
       IN  dispatcherA' =
         Respond([d EXCEPT !.sent = Some(sent)],
                 [message_id |-> dispatcherA.message.message_id,
                  response |-> sent.result,
                  determined_action |-> dispatcherA.action,
                  service_type |-> dispatcherA.service_type,
                  trace_id |-> dispatcherA.trace_id])
    /\ UNCHANGED <<registryVars, concurrencyVars, fabric, componentVars>>

\* the name of the field of an error response of each branch
ErrorField(pc) ==
    CASE pc = "L230" -> "text" [] pc = "L276" -> "summary" [] OTHER -> "analysis"

\* mutant: an error of the backend is reported in the handler's own words
rest_client_in_own_words(result) ==
    /\ dispatcherA.pc \in {"L230", "L276", "L322", "L361"}
    /\ dispatcherA' =
          Respond(dispatcherA,
                  IF "error" \in DOMAIN result /\ dispatcherA.pc # "L361"
                  THEN [message_id |-> dispatcherA.message.message_id,
                        error |-> "Error processing message",
                        details |-> "",
                        trace_id |-> dispatcherA.trace_id]
                  ELSE [message_id |-> dispatcherA.message.message_id,
                        response |-> result,
                        trace_id |-> dispatcherA.trace_id])
    /\ UNCHANGED <<registryVars, concurrencyVars, fabric, componentVars>>

\* the REST API client's answer arrives and is returned
rest_client(result) ==
    /\ dispatcherA.pc \in {"L230", "L276", "L322", "L361"}
    /\ LET d == dispatcherA
           base == [message_id |-> d.message.message_id, response |-> result,
                    trace_id |-> d.trace_id]
       IN  dispatcherA' =
             IF d.pc = "L361" THEN Respond(d, base)
             ELSE IF "error" \in DOMAIN result
             THEN Respond(d,
                    [message_id |-> d.message.message_id,
                     response |-> With([model_used |-> "error"], ErrorField(d.pc),
                                       "Error: " \o result["error"]),
                     error |-> result["error"],
                     details |-> GetOr(result, "details", ""),
                     determined_action |-> DeterminedAction(d),
                     trace_id |-> d.trace_id])
             ELSE Respond(d, With(base, "determined_action", DeterminedAction(d)))
    /\ UNCHANGED <<registryVars, concurrencyVars, fabric, componentVars>>

\* the response is sent; the server is ready for the next message
respond ==
    /\ dispatcherA.pc = "done"
    /\ dispatcherA' = DispatcherIdle
    /\ UNCHANGED <<registryVars, concurrencyVars, fabric, componentVars>>

\* the answers of the reasoning backend for a message: the backend is
\* called only for a message the handler classifies
RepliesFor(message) ==
    IF NeedsClassifier(GetOr(message.content, "action", JsonNull),
                       message.content)
    THEN BackendReplies ELSE {[kind |-> "failed"]}

NextDispatch ==
    \/ /\ dispatcherA.pc = "idle"
       /\ \E x_trace_id \in TraceHeaders, message \in MCPMessage :
            \E reply \in RepliesFor(message) :
               receive_message(x_trace_id, message, reply)
    \/ \E p \in Processes, created \in BOOLEAN : register_with_registry(p, created)
    \/ \E call \in RegistryCalls : get_mcp_servers(call)
    \/ \E lookup \in RegistryCalls, target_call \in RegistryCalls,
          post \in PostOutcomes, peer_result \in GraphQLResults :
         send_message(lookup, target_call, post, peer_result)
    \/ \E result \in RestResults : rest_client(result)
    \/ respond

SpecDispatch == Init /\ [][NextDispatch]_vars

(***************************************************************************)
(* The two MCP servers as their clients reach them: a request is a POST of *)
(* an envelope to a path of one of the servers.  The handlers of the two   *)
(* servers share no state, so a behaviour has one request in service at a  *)
(* time: one at MCP server 1, which may forward its envelope to MCP server *)
(* 2, or one posted to MCP server 2 by a client.                           *)
(***************************************************************************)
\* the paths the clients and the tests post an envelope to
Paths == {"/message", "/mcp/message"}

\* the path of each server's message handler: the router's prefix and the
\* path of the route
Routes ==
    [p \in {"mcp-server-1", "mcp-server-2"} |->
        IF p = "mcp-server-1" THEN "/message" ELSE "/mcp/message"]

\* the answer of the framework to a path no route serves
NotFound == [detail |-> "Not Found"]

\* a POST to a path of MCP server 1 that its router does not serve: the
\* handler is not reached, the middlewares still see the request
not_found(path, x_trace_id, message) ==
    /\ dispatcherA.pc = "idle"
    /\ fabric["mcp-server-1"].started
    /\ path # Routes["mcp-server-1"]
    /\ dispatcherA' =
          ThroughMiddlewares(
              [DispatcherIdle EXCEPT
                  !.path = path, !.message = message,
                  !.x_trace_id = x_trace_id,
                  !.outer_trace_id = HeaderOrGenerated(x_trace_id, 1),
                  !.trace_id = HeaderOrGenerated(x_trace_id, 2)],
              404, NotFound)
    /\ UNCHANGED <<registryVars, concurrencyVars, fabric, componentVars>>

\* a POST of an envelope to MCP server 2 by a client: the handler answers
\* with its payload, a path without a route is answered with 404
receive_message_B(path, message, result) ==
    /\ dispatcherB = None
    /\ dispatcherA.pc = "idle"
    /\ fabric["mcp-server-2"].started
    /\ dispatcherB' =
          Some(IF path = Routes["mcp-server-2"]
               THEN [path |-> path, message |-> message, http |-> 200,
                     payload |-> receive_message_2(message, result)]
               ELSE [path |-> path, message |-> message, http |-> 404,
                     payload |-> NotFound])
    /\ UNCHANGED <<registryVars, concurrencyVars, dispatcherVars,
                   classifierVars, lifecycleVars, frontVars>>

\* the response of MCP server 2 is sent
respond_B ==
    /\ dispatcherB # None
    /\ dispatcherB' = None
    /\ UNCHANGED <<registryVars, concurrencyVars, dispatcherVars,
                   classifierVars, lifecycleVars, frontVars>>

NextEnvelope ==
    \/ dispatcherB = None /\ NextDispatch
    \/ /\ dispatcherB = None /\ dispatcherA.pc = "idle"
       /\ \E path \in Paths, x_trace_id \in TraceHeaders, message \in MCPMessage :
            not_found(path, x_trace_id, message)
    \/ /\ dispatcherB = None /\ dispatcherA.pc = "idle"
       /\ \E path \in Paths, message \in MCPMessage, result \in GraphQLResults :
            receive_message_B(path, message, result)
    \/ respond_B

SpecEnvelope == Init /\ [][NextEnvelope]_vars

\* every call a handler awaits has a timeout, so it returns or raises: the
\* handler of MCP server 1 goes on from each of its awaits
AwaitsReturn ==
    /\ WF_vars(\E call \in RegistryCalls : get_mcp_servers(call))
    /\ WF_vars(\E lookup \in RegistryCalls, target_call \in RegistryCalls,
                  post \in PostOutcomes, peer_result \in GraphQLResults :
                   send_message(lookup, target_call, post, peer_result))
    /\ WF_vars(\E result \in RestResults : rest_client(result))

SpecEnvelopeFair == SpecEnvelope /\ AwaitsReturn

(***************************************************************************)
(* The directory changes while MCP server 1 serves a request: the status   *)
(* of the peer's descriptor is set, the descriptor is deleted (by the peer  *)
(* on its shutdown or by any caller), and the registry, which keeps its     *)
(* store in memory, is restarted.  Each is one request the registry serves  *)
(* between two awaits of the handler of MCP server 1.                       *)
(***************************************************************************)
\* PUT /registry/services/{service_id}/status from any caller
put_status(service_id, status) ==
    /\ DictHas(services, service_id)
    /\ DictGet(services, service_id).status # status
    /\ services' = update_service_status(services, service_id, status, now).services
    /\ UNCHANGED <<uuids, now, last, returned, deregistered, onlyRegisters,
                   concurrencyVars, dispatcherVars, componentVars>>

\* DELETE /registry/services/{service_id} from any caller, the process
\* itself on its shutdown included
delete_service(service_id) ==
    /\ DictHas(services, service_id)
    /\ services' = deregister_service(services, service_id).services
    /\ UNCHANGED <<uuids, now, last, returned, deregistered, onlyRegisters,
                   concurrencyVars, dispatcherVars, componentVars>>

\* the registry process is restarted: RegistryService() starts with an
\* empty dict; the processes keep the ids they hold
registry_restart ==
    /\ services # <<>>
    /\ services' = <<>>
    /\ UNCHANGED <<uuids, now, last, returned, deregistered, onlyRegisters,
                   concurrencyVars, dispatcherVars, componentVars>>

\* the id MCP server 2 holds, if it holds one
PeerIds == {fabric["mcp-server-2"].service_id} \ {0}

\* MCP server 1 is idle, or its handler has the listing or send_message
\* still to come: the handler reads the directory nowhere else, and what
\* the registry serves later it serves as well once the response is sent
ReadsDirectory == dispatcherA.pc \in {"idle", "L161", "L177"}

\* one request is in service at a time: the envelopes with the first of the
\* message ids
ChurnMessages == {message \in MCPMessage : message.message_id = "m1"}

\* the two dispatchers: the processes whose descriptors the forward reads
Dispatchers == {"mcp-server-1", "mcp-server-2"}

\* the steps of MCP server 1, the requests that change the descriptor of
\* the peer, and the restart
NextChurn ==
    \/ /\ dispatcherA.pc = "idle"
       /\ \E x_trace_id \in TraceHeaders, message \in ChurnMessages :
            \E reply \in RepliesFor(message) :
               receive_message(x_trace_id, message, reply)
    \/ \E p \in Dispatchers, created \in BOOLEAN : register_with_registry(p, created)
    \/ \E call \in RegistryCalls : get_mcp_servers(call)
    \/ \E lookup \in RegistryCalls, target_call \in RegistryCalls,
          post \in PostOutcomes, peer_result \in GraphQLResults :
         send_message(lookup, target_call, post, peer_result)
    \/ \E result \in RestResults : rest_client(result)
    \/ respond
    \/ /\ ReadsDirectory
       /\ \E service_id \in PeerIds, status \in ServiceStatus : put_status(service_id, status)
    \/ /\ ReadsDirectory
       /\ \E service_id \in PeerIds : delete_service(service_id)
    \/ ReadsDirectory /\ registry_restart

SpecChurn == Init /\ [][NextChurn]_vars

(***************************************************************************)
(* The life of a process: startup, the rounds of the heartbeat task,       *)
(* shutdown, and a new start of the process.  Meanwhile any caller may     *)
(* delete a descriptor and the registry may be restarted.                  *)
(***************************************************************************)
\* mutant: the process stops without a request to the registry
shutdown_event_silent(p) ==
    /\ tasks[p].pc \in {"send_heartbeat", "sleep"}
    /\ tasks' = [tasks EXCEPT ![p].pc = "stopped", ![p].bye = "none"]
    /\ UNCHANGED <<registryVars, concurrencyVars, dispatcherVars, classifierVars,
                   peerVars, frontVars, registryUp>>

\* shutdown_event: a process that holds an id sends one DELETE for it and
\* catches what the request raises; the status of the answer is not read.
\* bye is how the request ended, "none" when none was sent
shutdown_event(p) ==
    /\ tasks[p].pc \in {"send_heartbeat", "sleep"}
    /\ IF fabric[p].service_id = 0
       THEN /\ tasks' = [tasks EXCEPT ![p].pc = "stopped", ![p].bye = "none"]
            /\ UNCHANGED services
       ELSE IF registryUp
       THEN LET r == deregister_service(services, fabric[p].service_id)
            IN  /\ services' = r.services
                /\ tasks' = [tasks EXCEPT
                      ![p].pc = "stopped",
                      ![p].bye = IF r.ret THEN "200" ELSE "404"]
       ELSE /\ tasks' = [tasks EXCEPT ![p].pc = "stopped", ![p].bye = "failed"]
            /\ UNCHANGED services
    /\ UNCHANGED <<uuids, now, last, returned, deregistered, onlyRegisters,
                   concurrencyVars, dispatcherVars, classifierVars, peerVars,
                   frontVars, registryUp>>

\* the process is started again: the module is loaded anew, service_id is
\* None and no task runs
restart(p) ==
    /\ tasks[p].pc = "stopped"
    /\ tasks' = [tasks EXCEPT ![p] = NoTask]
    /\ fabric' = [fabric EXCEPT ![p] = [service_id |-> 0, started |-> FALSE]]
    /\ UNCHANGED <<registryVars, concurrencyVars, dispatcherA, classifierVars,
                   peerVars, frontVars, registryUp>>

NextLifetime ==
    \/ NextLifecycle
    \/ \E p \in Processes : shutdown_event(p)
    \/ \E p \in Processes : restart(p)
    \/ \E service_id \in Ids : delete_service(service_id)
    \/ registry_restart

SpecLifetime == Init /\ [][NextLifetime]_vars

(***************************************************************************)
(* The simple client: POST /api/send posts {input: prompt} to the MCP      *)
(* server and turns the server's answer into its own body.  The MCP server *)
(* is the client's environment: it answers with any of the bodies and      *)
(* statuses the message handler and the framework produce, or cannot be    *)
(* reached.                                                                *)
(***************************************************************************)
Prompts == Inputs \ {""}

\* str(uuid.uuid4()) of the requests
RequestIds == {"r1", "r2"}

\* the bodies the MCP server answers with status 200.  MCP server 1: a
\* local result, a backend error, an unknown action, a forwarded envelope
\* answered by the peer with a result or with the peer backend's error, and
\* a forward that failed in the client; MCP server 2, when the client is
\* pointed at it: its answer to content {input}
ServerBodies(message_id) ==
    LET Forwarded(result) ==
            [message_id |-> message_id, response |-> result,
             determined_action |-> "translate_text",
             service_type |-> "graphql", trace_id |-> GeneratedTraceId(2)]
    IN  {[message_id |-> message_id, response |-> [model_used |-> "rest-api"],
          determined_action |-> "generate_text", service_type |-> "rest",
          trace_id |-> GeneratedTraceId(2)],
         [message_id |-> message_id, error |-> "Failed to connect to REST API",
          details |-> "Connection error: connection refused",
          trace_id |-> GeneratedTraceId(2)],
         [message_id |-> message_id, error |-> "Unknown action: translate_text",
          trace_id |-> GeneratedTraceId(2)]}
        \cup { Forwarded([message_id |-> ForwardedMessageId, response |-> r]) :
                  r \in GraphQLResults }
        \cup { Forwarded([error |-> e]) :
                  e \in {"Failed to send message: 500",
                         "Server ID not set. Please ensure the service is registered with the registry."} }
        \cup { receive_message_2([message_id |-> message_id,
                                  content |-> [input |-> "Make a poem about flowers"]], r) :
                  r \in GraphQLResults }

\* how a POST to the MCP server ends: the request raises, or the server
\* answers with a status and a body, which is JSON or is not
ServerAnswers(message_id) ==
    {[kind |-> "raised"]}
        \cup {[kind |-> "answered", status |-> 200, json |-> Some(b)] :
                 b \in ServerBodies(message_id)}
        \cup {[kind |-> "answered", status |-> 200, json |-> None],
              [kind |-> "answered", status |-> 404, json |-> Some(NotFound)],
              [kind |-> "answered", status |-> 500,
               json |-> Some([detail |-> "Error processing message: TypeError"])]}

\* send_request: the primary URL is tried, the alternative one when the
\* request to the primary raises; what the alternative raises is caught by
\* the outer handler
send_request_body(request_id, primary, alternative) ==
    LET response == IF primary.kind = "raised" THEN alternative ELSE primary
        Failure(error, details) ==
            [success |-> FALSE, error |-> error, details |-> details,
             request_id |-> request_id]
    IN  IF response.kind = "raised"
        THEN Failure("Failed to process request", "connection refused")
        ELSE IF response.status # 200
        THEN Failure(IF response.status = 404 THEN "Server error: 404"
                     ELSE "Server error: 500", "response.text")
        ELSE IF response.json = None
        THEN Failure("Failed to process request", "JSONDecodeError")
        ELSE LET result == response.json[1]
             IN  IF "response" \in DOMAIN result
                       /\ "error" \in DOMAIN result.response
                 THEN Failure(result.response.error,
                              GetOr(result.response, "details", ""))
                 ELSE [success |-> TRUE, result |-> result,
                       request_id |-> request_id]

\* the URLs the simple client posts to
MCP_SERVER_URL == "http://mcp-server-1:8000"
MCP_SERVER_ALT_URL == "http://localhost:8003"

\* mutant: the alternative URL is tried as well when the primary answered
\* with a status other than 200
DeliveryAttempts_on_any_failure(primary) ==
    IF primary.kind = "raised" \/ primary.status # 200
    THEN <<MCP_SERVER_URL \o "/mcp/message", MCP_SERVER_ALT_URL \o "/mcp/message">>
    ELSE <<MCP_SERVER_URL \o "/mcp/message">>

\* the POSTs of one request: to the primary URL, and in the except branch
\* of that POST to the alternative URL
DeliveryAttempts(primary) ==
    IF primary.kind = "raised"
    THEN <<MCP_SERVER_URL \o "/mcp/message", MCP_SERVER_ALT_URL \o "/mcp/message">>
    ELSE <<MCP_SERVER_URL \o "/mcp/message">>

send_request(prompt, request_id, primary, alternative) ==
    /\ simpleClient' =
          Some([prompt |-> prompt,
                message |-> [message_id |-> "simple-client-" \o request_id,
                             source_id |-> "simple-client",
                             content |-> [input |-> prompt]],
                primary |-> primary, alternative |-> alternative,
                request_id |-> request_id,
                posts |-> DeliveryAttempts(primary),
                body |-> send_request_body(request_id, primary, alternative)])
    /\ UNCHANGED <<registryVars, concurrencyVars, dispatcherVars,
                   classifierVars, lifecycleVars, peerVars>>

NextSimpleClient ==
    \E prompt \in Prompts, request_id \in RequestIds :
        \E primary \in ServerAnswers("simple-client-" \o request_id),
           alternative \in ServerAnswers("simple-client-" \o request_id) :
            send_request(prompt, request_id, primary, alternative)

SpecSimpleClient == Init /\ [][NextSimpleClient]_vars

(***************************************************************************)
(* Properties of the registry.                                             *)
(***************************************************************************)
\* the ids of a list of descriptors
IdsOf(list) == { list[i].id : i \in 1..Len(list) }

\* the fields a registration supplies are those of the descriptor
SameRegistration(d, service) ==
    /\ d.name = service.name
    /\ d.url = service.url
    /\ d.type = service.type
    /\ d.capabilities = service.capabilities

\* descriptor e is descriptor d with (at most) last_seen changed
SameButLastSeen(d, e) == e = [d EXCEPT !.last_seen = e.last_seen]

\* every descriptor other than service_id's is in svcs2 what it was in svcs1
OthersUnchanged(svcs1, svcs2, service_id) ==
    \A k \in (DictKeys(svcs1) \cup DictKeys(svcs2)) \ {service_id} :
        get_service(svcs2, k) = get_service(svcs1, k)

\* C1: N successful registrations and no other mutation: the N returned ids
\* are pairwise distinct and get_all_services lists exactly the N returned
\* descriptors, none missing, overwritten or extra.
C1_RegistersListed ==
    onlyRegisters =>
        /\ Len(returned) = uuids
        /\ Cardinality(IdsOf(returned)) = Len(returned)
        /\ Range(get_all_services(services)) = Range(returned)
        /\ Len(get_all_services(services)) = Len(returned)

\* two registrations with identical name, url, type and capabilities are listed
C1_Witness ==
    /\ onlyRegisters
    /\ last.op = "register"
    /\ Len(returned) = 2
    /\ SameRegistration(returned[1], last.req[1])
    /\ SameRegistration(returned[2], last.req[1])
    /\ Len(get_all_services(services)) = 2

\* C2: right after register_service(r) returned d, get_service(d.id) gives a
\* descriptor that is ONLINE, whose last_seen is not before the clock value
\* read just before the registration, and whose name, url, type and
\* capabilities are those of r.
C2_GetAfterRegister ==
    last.op = "register" =>
        LET d == last.ret[1]
            got == get_service(services, d.id)
        IN  /\ got # None
            /\ got[1].id = d.id
            /\ got[1].status = "online"
            /\ got[1].last_seen >= last.t0
            /\ SameRegistration(got[1], last.req[1])

\* a registration during which the clock advanced, beside an older descriptor
C2_Witness ==
    /\ last.op = "register"
    /\ Len(services) = 2
    /\ get_service(services, last.ret[1].id)[1].last_seen > last.t0

\* what a heartbeat leaves alone: on a registered id everything but that
\* descriptor's last_seen, on an unknown id the whole store (answered 404)
HeartbeatFrame(service_id) ==
    IF DictHas(services, service_id)
    THEN /\ last'.http = 200
         /\ DictHas(services', service_id)
         /\ SameButLastSeen(DictGet(services, service_id),
                            DictGet(services', service_id))
         /\ OthersUnchanged(services, services', service_id)
         /\ DictKeys(services') = DictKeys(services)
    ELSE /\ last'.http = 404
         /\ last'.ret = None
         /\ services' = services

\* C3 as claimed: a heartbeat on a registered id moves last_seen strictly
\* forward.
C3_HeartbeatStrictlyForward ==
    [][\A service_id \in ArgIds :
          service_heartbeat(service_id) =>
              /\ HeartbeatFrame(service_id)
              /\ DictHas(services, service_id) =>
                    DictGet(services', service_id).last_seen
                        > DictGet(services, service_id).last_seen]_vars

\* C3 (amended): a heartbeat on a registered id sets last_seen to the clock
\* value it reads, which is never before the previous last_seen and is later
\* exactly when the clock has advanced past it; status, name, url, type,
\* capabilities, id and every other descriptor are unchanged.  On an unknown
\* id it answers 404 and the whole store is unchanged.
C3_HeartbeatFrame ==
    [][\A service_id \in ArgIds :
          service_heartbeat(service_id) =>
              /\ HeartbeatFrame(service_id)
              /\ DictHas(services, service_id) =>
                    /\ DictGet(services', service_id).last_seen = now'
                    /\ DictGet(services', service_id).last_seen
                           >= DictGet(services, service_id).last_seen]_vars

\* a heartbeat was accepted for one of two registered services
C3_Witness ==
    /\ last.op = "heartbeat"
    /\ last.http = 200
    /\ Len(services) = 2

\* C4: a successful deregister_service(id) leaves id absent and every other
\* descriptor present and unchanged; on an unknown id (also one already
\* deregistered) it returns False, answered 404, and the store is unchanged.
C4_DeregisterFrame ==
    [][\A service_id \in ArgIds :
          api_deregister_service(service_id) =>
              IF DictHas(services, service_id)
              THEN /\ last'.ok
                   /\ last'.http = 200
                   /\ get_service(services', service_id) = None
                   /\ OthersUnchanged(services, services', service_id)
                   /\ DictKeys(services') = DictKeys(services) \ {service_id}
              ELSE /\ ~last'.ok
                   /\ last'.http = 404
                   /\ services' = services]_vars

\* an id already deregistered is deregistered again, beside a live descriptor
C4_Witness ==
    /\ last.op = "deregister"
    /\ last.http = 404
    /\ last.arg \in deregistered
    /\ Len(services) = 1

\* the descriptors registered and not deregistered, by the history of calls
Registered == (1..uuids) \ deregistered

\* C5: for every type T, get_services_by_type(T) is exactly the currently
\* registered descriptors of type T, each once, and never one that has been
\* deregistered; the endpoint answers with that list.
C5_ByType ==
    /\ \A T \in ServiceType :
          LET got == get_services_by_type(services, T)
          IN  /\ IdsOf(got) = { k \in Registered :
                                   /\ get_service(services, k) # None
                                   /\ get_service(services, k)[1].type = T }
              /\ \A i \in 1..Len(got) : get_service(services, got[i].id) = Some(got[i])
              /\ Cardinality(IdsOf(got)) = Len(got)
              /\ IdsOf(got) \cap deregistered = {}
    /\ (last.op = "get_all_services" /\ last.type \in ServiceType) =>
          /\ last.http = 200
          /\ last.ret = get_services_by_type(services, last.type)

\* one of two registered services is listed by its type; a third type is empty
C5_Witness ==
    /\ last.op = "get_all_services"
    /\ last.type = "mcp"
    /\ Len(last.ret) = 1
    /\ Len(services) = 2
    /\ get_services_by_type(services, "graphql") = <<>>

\* every key of the dict maps to the descriptor with that id, and no two
\* entries have the same id
KeysAreIds(svcs) ==
    /\ \A i \in 1..Len(svcs) : svcs[i].key = svcs[i].value.id
    /\ \A i, j \in 1..Len(svcs) : svcs[i].value.id = svcs[j].value.id => i = j

\* C6: each key k of the services map maps to a descriptor whose id is k, no
\* two live descriptors have the same id, and no operation changes the id of
\* an existing descriptor.
C6_IdIsKey ==
    [][/\ KeysAreIds(services')
       /\ \A i \in 1..Len(services) :
             DictHas(services', services[i].key) =>
                 DictGet(services', services[i].key).id = services[i].value.id]_vars

\* a status update and a second registration have been served
C6_Witness ==
    /\ last.op = "update_service_status"
    /\ last.http = 200
    /\ Len(services) = 2
    /\ KeysAreIds(services)

\* C7: while a descriptor exists its last_seen never decreases from one state
\* to the next.
C7_LastSeenMonotonic ==
    [][\A k \in DictKeys(services) \cap DictKeys(services') :
          DictGet(services', k).last_seen >= DictGet(services, k).last_seen]_vars

\* a status update refreshed last_seen after the clock advanced, with
\* another descriptor in the store
C7_Witness ==
    /\ last.op = "update_service_status"
    /\ last.http = 200
    /\ last.ret[1].last_seen = MaxClock
    /\ \E k \in DictKeys(services) : DictGet(services, k).last_seen < MaxClock

\* C8: a descriptor's status changes only in an update_service_status call on
\* its id and a descriptor leaves the store only in a deregister_service call
\* on its id; neither the passage of time nor any other call does either.
C8_NoEviction ==
    [][\A k \in DictKeys(services) :
          /\ ~DictHas(services', k) =>
                 /\ last'.op = "deregister"
                 /\ last'.arg = k
          /\ (DictHas(services', k)
                /\ DictGet(services', k).status # DictGet(services, k).status) =>
                 /\ last'.op = "update_service_status"
                 /\ last'.arg = k]_vars

\* time has run to the end of the clock without a heartbeat since, and the
\* registered services are still listed and ONLINE
C8_Witness ==
    /\ last.op = "tick"
    /\ now = MaxClock
    /\ Len(services) = 2
    /\ \A i \in 1..Len(services) :
          /\ services[i].value.status = "online"
          /\ services[i].value.last_seen = 0

\* a handler is between two statements of the registry
InHandler(c) == reqs[c].pc \notin {"idle", "L14", "L29", "L51", "L59"}

\* C9: each registry mutation takes effect atomically.  Whenever no handler
\* holds the event loop the dict is the one that running the answered calls
\* one after another gives, and every answer is the answer of that serial
\* run; a descriptor that was deregistered is never in the dict again, no
\* handler is ever left between two of its statements, and every id a
\* register call stored is in the dict until it is deregistered.
C9_Atomic ==
    /\ answersOk
    /\ running = NoClient =>
          /\ services = serial
          /\ \A c \in Clients : ~InHandler(c)
    /\ \A k \in deregistered : ~DictHas(services, k)
    /\ running = NoClient =>
          DictKeys(services) = (1..uuids) \ deregistered

\* a heartbeat and a deregistration of the same registered id are under way
\* at the same time, and so are waiting for the event loop together
C9_Witness ==
    /\ running = NoClient
    /\ \E c, d \in Clients :
          /\ reqs[c].op = "heartbeat" /\ reqs[c].pc = "L59"
          /\ reqs[d].op = "deregister" /\ reqs[d].pc = "L29"
          /\ reqs[c].arg = reqs[d].arg
          /\ DictHas(services, reqs[c].arg)


(***************************************************************************)
(* Properties of the message handler of MCP server 1.                      *)
(***************************************************************************)
\* the content names an action: the key is there and its value is neither
\* null nor the empty string
CarriesAction(content) ==
    /\ "action" \in DOMAIN content
    /\ content["action"] # JsonNull
    /\ content["action"] # ""

\* how many times the handler has called the classifier for its message
ClassifierCalls ==
    Cardinality({ i \in 1..Len(dispatcherA.calls) :
                    dispatcherA.calls[i].fn = "determine_action" })

\* C10: for a message whose content carries an action the handler never
\* calls the classifier, with or without an input beside the action; the
\* classifier is called, once and with the input, exactly for a message
\* whose action is absent, null or empty and whose content has an input.
C10_ClassifierOnlyWithoutAction ==
    dispatcherA.pc # "idle" =>
       LET content == dispatcherA.message.content
       IN  /\ CarriesAction(content) => ClassifierCalls = 0
           /\ ClassifierCalls =
                 IF ~CarriesAction(content) /\ "input" \in DOMAIN content
                 THEN 1 ELSE 0
           /\ ClassifierCalls = 1 =>
                 /\ dispatcherA.calls[1].fn = "determine_action"
                 /\ dispatcherA.calls[1].arg = content["input"]

\* a message with both an action and an input has been answered without a
\* call of the classifier
C10_Witness ==
    /\ dispatcherA.pc = "done"
    /\ CarriesAction(dispatcherA.message.content)
    /\ "input" \in DOMAIN dispatcherA.message.content
    /\ dispatcherA.message.content["input"] # ""
    /\ ClassifierCalls = 0
    /\ Len(dispatcherA.calls) = 1

\* the calls of the REST API client, the local backend of MCP server 1
RestClientCalls ==
    {"rest_client.generate_text", "rest_client.summarize_text",
     "rest_client.analyze_data", "rest_client.get_status"}

\* the handler has called its local backend for the message
CalledLocalBackend ==
    \E i \in 1..Len(dispatcherA.calls) : dispatcherA.calls[i].fn \in RestClientCalls

\* C11: when the classifier chose "graphql" and the list of peers has no
\* GraphQL server (the registry has none, or could not be reached), the
\* handler does not fail and answers from a call of its local backend,
\* whatever action the classifier chose.  Stated for parameters that are a
\* JSON object, the case in which forming the content cannot raise.
C11_DegradesToLocalBackend ==
    (dispatcherA.degraded /\ IsMap(dispatcherA.params)) =>
        /\ dispatcherA.http # 500
        /\ CalledLocalBackend
        /\ dispatcherA.pc = "done" => "response" \in DOMAIN dispatcherA.payload

\* the names of the calls the handler has made for its message
CalledFns == { dispatcherA.calls[i].fn : i \in 1..Len(dispatcherA.calls) }

\* C12: with MCP server 2 registered when the message arrives, a message
\* whose content is {action: translate_text, text, source_language,
\* target_language} is forwarded to that server, and the payload returned to
\* the caller has the message_id of the request.
C12_TranslateIsForwarded ==
    ( /\ dispatcherA.pc = "done"
      /\ dispatcherA.message.content = TranslateContent
      /\ dispatcherA.peer_registered ) =>
        /\ "send_message" \in CalledFns
        /\ dispatcherA.sent # None
        /\ "message_id" \in DOMAIN dispatcherA.payload
        /\ dispatcherA.payload["message_id"] = dispatcherA.message.message_id

\* the request ended on an error path: the handler raised, or the payload
\* or the result it wraps reports an error
OnErrorPath ==
    \/ dispatcherA.http = 500
    \/ "error" \in DOMAIN dispatcherA.payload
    \/ /\ "response" \in DOMAIN dispatcherA.payload
       /\ "error" \in DOMAIN dispatcherA.payload["response"]

\* C13: every request to POST /message ends with a returned payload; on
\* every error path (backend error, forwarding error, unknown action,
\* exception in the handler) the payload has error, details and trace_id,
\* and the answer is never an HTTP 500 without them.
C13_ErrorPathsAreTyped ==
    (dispatcherA.pc = "done" /\ OnErrorPath) =>
        {"error", "details", "trace_id"} \subseteq DOMAIN dispatcherA.payload

\* an error payload has a non-empty error and the trace identifier of the
\* request, when the request supplied one
TracedError(payload, x_trace_id) ==
    /\ "error" \in DOMAIN payload
    /\ payload["error"] # ""
    /\ x_trace_id # None =>
          /\ "trace_id" \in DOMAIN payload
          /\ payload["trace_id"] = x_trace_id[1]

\* C14: every error payload a component returns has a non-empty error and a
\* trace_id equal to the X-Trace-ID of the originating request, when one was
\* supplied: the payload MCP server 1 answers with, the result of the
\* client's send_message, and the payload of MCP server 2.
C14_ErrorPayloadsCarryTrace ==
    dispatcherA.pc = "done" =>
        /\ (dispatcherA.http = 500 \/ "error" \in DOMAIN dispatcherA.payload)
              => TracedError(dispatcherA.payload, dispatcherA.x_trace_id)
        /\ (dispatcherA.sent # None
              /\ "error" \in DOMAIN dispatcherA.sent[1].result)
              => TracedError(dispatcherA.sent[1].result, dispatcherA.x_trace_id)
        /\ \A message \in MCPMessage, result \in GraphQLResults :
              LET payload == receive_message_2(message, result)
              IN  "error" \in DOMAIN payload
                     => TracedError(payload, dispatcherA.x_trace_id)

\* C15: the trace identifier attached at the ingress of MCP server 1 goes
\* with the forward: the request posted to MCP server 2 carries it, and so
\* do the peer's response and the payload MCP server 1 returns.
C15_TraceThreadedThroughForward ==
    ( /\ dispatcherA.pc = "done"
      /\ dispatcherA.sent # None
      /\ dispatcherA.sent[1].posted # None ) =>
        LET request == dispatcherA.sent[1].posted[1]
            result == dispatcherA.sent[1].result
        IN  /\ \/ /\ "X-Trace-ID" \in DOMAIN request.headers
                  /\ request.headers["X-Trace-ID"] = dispatcherA.trace_id
               \/ /\ "trace_id" \in DOMAIN request.json
                  /\ request.json["trace_id"] = dispatcherA.trace_id
            /\ "trace_id" \in DOMAIN result
            /\ result["trace_id"] = dispatcherA.trace_id
            /\ "trace_id" \in DOMAIN dispatcherA.payload
            /\ dispatcherA.payload["trace_id"] = dispatcherA.trace_id

\* C16: the X-Trace-ID header of the response is the X-Trace-ID header of
\* the request when there was one; when there was none, one identifier is
\* generated and both the response header and the trace_id of the body are
\* that identifier, with TracingMiddleware and add_trace_id both installed.
C16_OneTraceIdentifier ==
    dispatcherA.pc = "done" =>
        /\ "X-Trace-ID" \in DOMAIN dispatcherA.headers
        /\ dispatcherA.x_trace_id # None =>
              dispatcherA.headers["X-Trace-ID"] = dispatcherA.x_trace_id[1]
        /\ dispatcherA.x_trace_id = None =>
              /\ dispatcherA.outer_trace_id = dispatcherA.trace_id
              /\ "trace_id" \in DOMAIN dispatcherA.payload =>
                    dispatcherA.payload["trace_id"]
                       = dispatcherA.headers["X-Trace-ID"]

\* C17: get_mcp_servers does not raise: when the call of the registry fails
\* (no connection, timeout, a status other than 200) it returns the empty
\* list, and the handler takes an empty list for "no peer": it does not
\* raise on it, forwards nothing and goes on to the REST path with the
\* action and parameters the classifier chose.
C17_FailedListingIsNoPeer ==
    /\ MCPClient_get_mcp_servers(services, "failed") = <<>>
    /\ dispatcherA.registry_call = "failed" =>
          dispatcherA.mcp_servers = Some(<<>>)
    /\ dispatcherA.mcp_servers = Some(<<>>) =>
          /\ dispatcherA.degraded
          /\ dispatcherA.service_type = "rest"
          /\ dispatcherA.target = 0
          /\ "send_message" \notin CalledFns
          /\ dispatcherA.sent = None
          /\ IsMap(dispatcherA.params) =>
                dispatcherA.content
                   = Merge([action |-> dispatcherA.action], dispatcherA.params)

\* MCP server 2 is registered, the listing failed all the same, and the
\* message has been answered from the local backend
C17_Witness ==
    /\ dispatcherA.pc = "done"
    /\ dispatcherA.registry_call = "failed"
    /\ fabric["mcp-server-2"].service_id # 0
    /\ dispatcherA.peer_registered
    /\ dispatcherA.http = 200
    /\ CalledLocalBackend

\* what send_message may return by the claim: the peer's parsed response,
\* or an error with both error and details
ResponseOrTypedError(sent) ==
    \/ /\ sent.posted # None
       /\ "message_id" \in DOMAIN sent.result
    \/ {"error", "details"} \subseteq DOMAIN sent.result

\* C18: MCPClient.send_message does not raise and returns the peer's parsed
\* response or an error with both error and details, when the target id is
\* unknown to the registry, when the target has no url, when the peer
\* answers a status other than 200 and when the transport fails.
C18_SendReturnsResponseOrTypedError ==
    dispatcherA.sent # None => ResponseOrTypedError(dispatcherA.sent[1])

ClassificationFailed ==
    dispatcherA.backend \in {"failed", "no_json", "unreadable", "not_a_map"}

\* C20: whatever the input text, when the reasoning backend raises, answers
\* with a status other than 200, answers without JSON, with JSON that cannot
\* be read or with parameters that are not a map, determine_action returns
\* (generate_text, {prompt: the input, max_tokens: 100}, rest), and the
\* dispatcher goes on with the local generate_text without an error for the
\* caller.
C20_FailureYieldsFallback ==
    ClassificationFailed =>
        /\ dispatcherA.action = "generate_text"
        /\ dispatcherA.params =
              [prompt |-> GetOr(dispatcherA.message.content, "input", ""),
               max_tokens |-> 100]
        /\ dispatcherA.service_type = "rest"
        /\ dispatcherA.http # 500
        /\ dispatcherA.pc = "done" =>
              "rest_client.generate_text" \in CalledFns

(***************************************************************************)
(* Properties of the classifier on its own.                                *)
(***************************************************************************)
\* the six actions of the two capability sets
KnownActions ==
    Range(service_capabilities["rest"]) \cup Range(service_capabilities["graphql"])

OtherService(service_type) == IF service_type = "rest" THEN "graphql" ELSE "rest"

\* the backend's reply was an object (read or rebuilt) that names action a
\* and service type s, said or by default
Named(reply, a, s) ==
    /\ ResultOf(reply) # None
    /\ GetOr(ResultOf(reply)[1], "action", "generate_text") = a
    /\ GetOr(ResultOf(reply)[1], "service_type", "rest") = s

\* the reply names both, neither by default
NamedInFull(reply, a, s) ==
    /\ Named(reply, a, s)
    /\ {"action", "service_type"} \subseteq DOMAIN ResultOf(reply)[1]

\* the parameters of the object in the backend's reply
NamedParameters(reply) == GetOr(ResultOf(reply)[1], "parameters", EmptyObject)

\* the triple is valid: a known action, a service type that offers it
ValidTriple(t) ==
    /\ t.action \in KnownActions
    /\ t.service_type \in {"rest", "graphql"}
    /\ t.action \in Range(service_capabilities[t.service_type])

\* a known action named with the group that does not offer it
Misplaced(a, s) ==
    /\ a \in KnownActions
    /\ s \in {"rest", "graphql"}
    /\ a \notin Range(service_capabilities[s])

\* an unknown action or an unknown service type yields the fallback triple
UnknownYieldsFallback(d) ==
    \A a \in BackendActions, s \in BackendServiceTypes :
        (Named(d.reply, a, s) /\ (a \notin KnownActions \/ s \notin {"rest", "graphql"}))
            => d.returned = fallback_determination(d.input_text)

\* C21 as stated: every triple determine_action returns is valid; a known
\* action named with the group that does not offer it comes back with the
\* other group, whatever else the reply holds; an unknown action or service
\* type yields the fallback triple.
C21_AsStated ==
    determined # None =>
        LET d == determined[1]
        IN  /\ ValidTriple(d.returned)
            /\ \A a \in BackendActions, s \in BackendServiceTypes :
                 (NamedInFull(d.reply, a, s) /\ Misplaced(a, s))
                     => d.returned.service_type = OtherService(s)
            /\ UnknownYieldsFallback(d)

\* C21: every triple determine_action returns is valid; a known action
\* named with the group that does not offer it comes back as that action
\* with the other group when the reply's parameters are a map, and as that
\* or as the fallback triple when they are not a map; an unknown action or
\* service type yields the fallback triple.
C21_ValidatedTriple ==
    determined # None =>
        LET d == determined[1]
            moved(a, s) == /\ d.returned.action = a
                           /\ d.returned.service_type = OtherService(s)
        IN  /\ ValidTriple(d.returned)
            /\ \A a \in BackendActions, s \in BackendServiceTypes :
                 (Named(d.reply, a, s) /\ Misplaced(a, s)) =>
                     IF IsMap(NamedParameters(d.reply))
                     THEN moved(a, s)
                     ELSE \/ moved(a, s)
                          \/ d.returned = fallback_determination(d.input_text)
            /\ UnknownYieldsFallback(d)

\* the backend named summarize with graphql and a map of parameters, and
\* the call returned summarize with rest
C21_Witness ==
    /\ determined # None
    /\ Named(determined[1].reply, "summarize", "graphql")
    /\ IsMap(NamedParameters(determined[1].reply))
    /\ determined[1].returned.action = "summarize"
    /\ determined[1].returned.service_type = "rest"

(***************************************************************************)
(* Properties of the startup registration and the heartbeat task.          *)
(***************************************************************************)
\* after a failed heartbeat attempt the task comes to its next round
HeartbeatGoesOn(p) ==
    (tasks[p].pc = "sleep" /\ tasks[p].beat = "failed")
        ~> (tasks[p].pc = "send_heartbeat")

\* a started process without an id becomes registered once the registry can
\* be reached, unless the registry is lost again first
RegistrationRetried(p) ==
    (fabric[p].started /\ fabric[p].service_id = 0 /\ registryUp)
        ~> (fabric[p].service_id # 0 \/ ~registryUp)

\* C22: a failed attempt is retried on the next tick and never stops the
\* loop: after a failed heartbeat the heartbeat task still runs its next
\* round, and a process whose startup registration failed registers on a
\* later round, so that it eventually becomes registered once the registry
\* can be reached.
C22_FailedAttemptsRetried ==
    \A p \in Processes : HeartbeatGoesOn(p) /\ RegistrationRetried(p)

(***************************************************************************)
(* Properties of the two servers' answers to an envelope.                  *)
(***************************************************************************)
\* the actions each dispatcher handles with its own backend
LocalActions ==
    [p \in {"mcp-server-1", "mcp-server-2"} |->
        IF p = "mcp-server-1"
        THEN {"generate_text", "summarize", "analyze_data", "get_status"}
        ELSE {"generate_text", "translate_text", "classify_text",
              "analyze_sentiment", "get_status"}]

\* an explicit error for the request: its message_id, an error and a trace
ExplicitError(http, payload, message_id) ==
    /\ http = 200
    /\ {"message_id", "error", "trace_id"} \subseteq DOMAIN payload
    /\ payload.message_id = message_id
    /\ payload.error # ""
    /\ payload.trace_id # ""

\* MCP server 1 has answered an envelope that it did not forward and whose
\* action, given or classified, it does not handle
UnhandledAtA ==
    /\ dispatcherA.pc = "done"
    /\ dispatcherA.path = Routes["mcp-server-1"]
    /\ "send_message" \notin CalledFns
    /\ dispatcherA.action \notin LocalActions["mcp-server-1"]

\* MCP server 2 has answered an envelope whose action it does not handle
UnhandledAtB ==
    /\ dispatcherB # None
    /\ dispatcherB[1].path = Routes["mcp-server-2"]
    /\ GetOr(dispatcherB[1].message.content, "action", JsonNull)
          \notin LocalActions["mcp-server-2"]

\* C23: an envelope whose action the receiving dispatcher does not handle
\* is answered with an explicit error payload that has the request's
\* message_id, a non-empty error and a trace_id, never with a crash: at MCP
\* server 1 for translate_text without a peer, for a classified action it
\* does not know and for content with neither action nor input, and at MCP
\* server 2.
C23_UnknownActionIsExplicitError ==
    /\ UnhandledAtA =>
          ExplicitError(dispatcherA.http, dispatcherA.payload,
                        dispatcherA.message.message_id)
    /\ UnhandledAtB =>
          ExplicitError(dispatcherB[1].http, dispatcherB[1].payload,
                        dispatcherB[1].message.message_id)

\* the payload echoes the message_id
Echoes(payload, message_id) ==
    "message_id" \in DOMAIN payload /\ payload.message_id = message_id

\* MCP server 1 forwarded the envelope and the peer's handler answered it
PeerAnswered ==
    /\ dispatcherA.pc = "done"
    /\ dispatcherA.sent # None
    /\ dispatcherA.sent[1].posted # None
    /\ "message_id" \in DOMAIN dispatcherA.sent[1].result

\* C24: every payload a message handler returns (MCP server 1 and MCP
\* server 2; success, backend error, forwarded, unknown action) has in
\* message_id the message_id of the envelope that handler received; when
\* MCP server 1 forwards, its caller gets the caller's message_id, not the
\* one generated for the forwarded envelope.
C24_MessageIdEchoed ==
    /\ (dispatcherA.pc = "done" /\ dispatcherA.http = 200) =>
          Echoes(dispatcherA.payload, dispatcherA.message.message_id)
    /\ (dispatcherB # None /\ dispatcherB[1].http = 200) =>
          Echoes(dispatcherB[1].payload, dispatcherB[1].message.message_id)
    /\ PeerAnswered =>
          Echoes(dispatcherA.sent[1].result,
                 dispatcherA.sent[1].posted[1].json.message_id)

\* a forwarded envelope was answered by the peer with the generated id, and
\* the caller's payload has the caller's id
C24_Witness ==
    /\ PeerAnswered
    /\ dispatcherA.sent[1].result.message_id = ForwardedMessageId
    /\ dispatcherA.payload.response.message_id = ForwardedMessageId
    /\ dispatcherA.payload.message_id = dispatcherA.message.message_id
    /\ dispatcherA.message.message_id # ForwardedMessageId

\* the envelope of the tests: {action: generate_text, prompt, max_tokens}
IsGenerateText(message) == message.content = GenerateContent

\* the request is answered by the message handler: status 200 and a body
\* with message_id and response
Served(http, payload) ==
    http = 200 /\ {"message_id", "response"} \subseteq DOMAIN payload

\* C25: both MCP servers serve /mcp/message: a POST of an envelope with
\* content {action: generate_text, prompt, max_tokens} to /mcp/message on
\* MCP server 1 and on MCP server 2 reaches the message handler and is
\* answered with status 200 and a body that has message_id and response.
C25_BothServeMcpMessage ==
    /\ (/\ dispatcherA.pc = "done"
        /\ dispatcherA.path = "/mcp/message"
        /\ IsGenerateText(dispatcherA.message))
          => Served(dispatcherA.http, dispatcherA.payload)
    /\ (/\ dispatcherB # None
        /\ dispatcherB[1].path = "/mcp/message"
        /\ IsGenerateText(dispatcherB[1].message))
          => Served(dispatcherB[1].http, dispatcherB[1].payload)

(***************************************************************************)
(* Properties of the simple client.                                        *)
(***************************************************************************)
\* the errors that contain "Server error"
ServerErrors == {"Server error: 404", "Server error: 500"}

C27_StatusUpdateFrame ==
    [][last'.op = "update_service_status" =>
         IF DictHas(services, last'.arg)
         THEN LET old == DictGet(services, last'.arg)
                  new == DictGet(services', last'.arg)
              IN  /\ last'.http = 200
                  /\ DictKeys(services') = DictKeys(services)
                  /\ new = [old EXCEPT !.status = last'.status,
                                       !.last_seen = now']
                  /\ new.last_seen >= old.last_seen
                  /\ last'.ret = Some(new)
                  /\ OthersUnchanged(services, services', last'.arg)
         ELSE /\ last'.http = 404
              /\ last'.ret = None
              /\ services' = services]_vars

\* a second status update has been served: the descriptor updated before is
\* still offline and the other one is now degraded, with a later last_seen
C27_Witness ==
    /\ last.op = "update_service_status"
    /\ last.http = 200
    /\ last.ret[1].status = "degraded"
    /\ last.ret[1].last_seen = MaxClock
    /\ \E k \in DictKeys(services) :
          /\ k # last.arg
          /\ DictGet(services, k).status = "offline"
          /\ DictGet(services, k).last_seen < MaxClock

\* how many times the handler of MCP server 1 has called fn for the message
CountCalls(fn) ==
    Cardinality({ i \in 1..Len(dispatcherA.calls) : dispatcherA.calls[i].fn = fn })

\* the dispatchers the request of MCP server 1 has reached
Hops == 1 + (IF dispatcherA.sent # None /\ dispatcherA.sent[1].posted # None
             THEN 1 ELSE 0)

\* at most one forward, only after a classification that returned graphql;
\* what the peer answers to the forwarded envelope is its own handling of
\* it, and a request posted to the peer is answered by the peer
OneForwardAtMost ==
    /\ CountCalls("send_message") <= 1
    /\ Hops <= 2
    /\ CountCalls("send_message") = 1 =>
          /\ CountCalls("determine_action") = 1
          /\ dispatcherA.service_type = "graphql"
    /\ (dispatcherA.sent # None /\ dispatcherA.sent[1].posted # None
           /\ "message_id" \in DOMAIN dispatcherA.sent[1].result) =>
          \E r \in GraphQLResults :
              dispatcherA.sent[1].result
                  = receive_message_2(dispatcherA.sent[1].posted[1].json, r)
    /\ (dispatcherB # None /\ dispatcherB[1].http = 200) =>
          \E r \in GraphQLResults :
              dispatcherB[1].payload = receive_message_2(dispatcherB[1].message, r)

\* C28: a request reaches at most two dispatchers and always ends: MCP
\* server 1 forwards an envelope at most once, only when it classified the
\* input and the classifier returned graphql; MCP server 2 handles what it
\* receives itself and forwards nothing; every request MCP server 1 has
\* taken is answered.
C28_RoutingTerminates ==
    /\ []OneForwardAtMost
    /\ (dispatcherA.pc # "idle") ~> (dispatcherA.pc = "done")

\* a classified request was forwarded once, answered by the peer, and is
\* answered
C28_Witness ==
    /\ dispatcherA.pc = "done"
    /\ CountCalls("send_message") = 1
    /\ CountCalls("determine_action") = 1
    /\ Hops = 2
    /\ "message_id" \in DOMAIN dispatcherA.sent[1].result

\* the descriptor is the one of a group-B dispatcher: MCP server 2 as it
\* registers
IsGroupBPeer(service) ==
    SameRegistration(service, Registration("mcp-server-2"))

\* the handler of MCP server 1 has chosen a target for a forward
TargetChosen == dispatcherA.target # 0

\* C29: whenever MCP server 1 forwards an envelope, the target it chose is
\* a registered peer of group B, whose handler handles the action of the
\* envelope that is forwarded; a registered service that does not offer the
\* action (MCP server 1 itself, the GraphQL API server) is never chosen,
\* and when the listing holds a peer of group B the handler does not go on
\* as if there were none.
C29_ForwardTargetOffersAction ==
    /\ TargetChosen =>
          /\ DictHas(services, dispatcherA.target)
          /\ IsGroupBPeer(DictGet(services, dispatcherA.target))
          /\ dispatcherA.action \in LocalActions["mcp-server-2"]
    /\ (dispatcherA.sent # None /\ dispatcherA.sent[1].posted # None) =>
          LET request == dispatcherA.sent[1].posted[1]
          IN  /\ request.json.target_id = dispatcherA.target
              /\ request.url = Registration("mcp-server-2").url \o Routes["mcp-server-2"]
              /\ request.json.content.action \in LocalActions["mcp-server-2"]
    /\ (/\ dispatcherA.mcp_servers # None
        /\ \E i \in 1..Len(dispatcherA.mcp_servers[1]) :
               IsGroupBPeer(dispatcherA.mcp_servers[1][i]))
          => ~dispatcherA.degraded

\* the handler of MCP server 1 waits for the REST API client on one of the
\* three actions it handles with an error branch
AwaitsLocalAction == dispatcherA.pc \in {"L230", "L276", "L322"}

\* the results of the REST API client that are errors
RestErrors == {result \in RestResults : "error" \in DOMAIN result}

\* C30: when generate_text, summarize or analyze_data gets an error result
\* from the REST API client, the payload of MCP server 1 carries the error
\* and the details of that result, the message_id of the request and the
\* trace_id of the handler (the X-Trace-ID of the request when it has one);
\* the error is not replaced, not dropped, and the response field is the
\* error response of the branch, not a result of the backend.
C30_BackendErrorPassedThrough ==
    [][\A result \in RestErrors :
          (AwaitsLocalAction /\ rest_client(result)) =>
              /\ dispatcherA'.pc = "done"
              /\ DOMAIN dispatcherA'.payload
                   = {"message_id", "response", "error", "details",
                      "determined_action", "trace_id"}
              /\ dispatcherA'.payload.error = result.error
              /\ dispatcherA'.payload.details = result.details
              /\ dispatcherA'.payload.message_id = dispatcherA.message.message_id
              /\ dispatcherA'.payload.trace_id = dispatcherA.trace_id
              /\ dispatcherA.x_trace_id # None =>
                    dispatcherA'.payload.trace_id = dispatcherA.x_trace_id[1]
              /\ dispatcherA'.payload.response.model_used = "error"
              /\ dispatcherA'.payload.response # result]_vars

\* a classified summarize request was answered with the backend's status
\* 500 error
C30_Witness ==
    /\ dispatcherA.pc = "done"
    /\ dispatcherA.action = "summarize"
    /\ CountCalls("determine_action") = 1
    /\ CountCalls("rest_client.summarize_text") = 1
    /\ "error" \in DOMAIN dispatcherA.payload
    /\ dispatcherA.payload.error = "API request failed with status 500"
    /\ dispatcherA.payload.details = "Internal Server Error"
    /\ dispatcherA.payload.message_id = dispatcherA.message.message_id

\* determine_action went through the validation and the filling of the
\* parameters and returned at its last line, not through the fallback
ReturnedDetermined(d) ==
    /\ ResultOf(d.reply) # None
    /\ GetOr(ResultOf(d.reply)[1], "action", "generate_text") \in KnownActions
    /\ GetOr(ResultOf(d.reply)[1], "service_type", "rest") \in {"rest", "graphql"}
    /\ ~ParametersRaise(GetOr(ResultOf(d.reply)[1], "action", "generate_text"),
                        NamedParameters(d.reply), d.input_text)

\* the parameters the dispatchers read for each action
NeededParameters(action) ==
    CASE action = "generate_text" -> {"prompt"}
      [] action = "summarize" -> {"text"}
      [] action = "analyze_data" -> {"data", "query"}
      [] action = "translate_text" -> {"text", "source_language", "target_language"}
      [] OTHER -> {"text"}

\* the input texts that name a language
NamesALanguage(text) ==
    text \in {"Translate 'Hello world' to Spanish",
              "Translate bonjour from French to German"}

\* C31: a result determine_action returns without the fallback has params
\* with the parameters the action needs (prompt; text; data and query; text,
\* source_language and target_language for translate_text; text for
\* classify_text and analyze_sentiment); a language that neither the backend
\* nor the input names is en for the source and es for the target; every
\* parameter the backend supplied is in params with the value it supplied.
C31_RequiredParametersPresent ==
    (determined # None /\ ReturnedDetermined(determined[1])) =>
        LET d == determined[1]
            supplied == NamedParameters(d.reply)
            params == d.returned.params
        IN  /\ IsMap(params)
            /\ NeededParameters(d.returned.action) \subseteq DOMAIN params
            /\ (d.returned.action = "translate_text" /\ ~NamesALanguage(d.input_text)) =>
                  /\ "source_language" \notin DOMAIN supplied =>
                        params.source_language = "en"
                  /\ "target_language" \notin DOMAIN supplied =>
                        params.target_language = "es"
            /\ \A k \in DOMAIN supplied : params[k] = supplied[k]

\* the lookup of the client's own id yields nothing: the registry did not
\* answer 200, or it answered with an empty list
LookupYieldsNothing(lookup) ==
    lookup # "200" \/ Len(get_all_services(services)) = 0

ServerIdNotSet ==
    [error |-> "Server ID not set. Please ensure the service is registered with the registry."]

\* C32: the client of MCP server 1 does not know its own id; when the lookup
\* of its id yields nothing, send_message returns the error that the server
\* id is not set, whatever the registry would answer for the target, and
\* posts no envelope; when the lookup yields an id, it is the id of MCP
\* server 1's own descriptor, never the id of another service.
C32_OwnIdLookup ==
    [][\A lookup \in RegistryCalls, target_call \in RegistryCalls,
          post \in PostOutcomes, peer_result \in GraphQLResults :
          send_message(lookup, target_call, post, peer_result) =>
              LET sent == dispatcherA'.sent[1]
              IN  /\ LookupYieldsNothing(lookup) =>
                        /\ sent.result = ServerIdNotSet
                        /\ sent.posted = None
                        /\ sent.server_id = 0
                  /\ sent.server_id # 0 =>
                        /\ fabric["mcp-server-1"].service_id # 0
                        /\ sent.server_id = fabric["mcp-server-1"].service_id]_vars

\* the error send_message returns when the POST to the peer raises
PeerUnreachable == [error |-> "Error sending message: peer"]

\* the listing holds a descriptor of the peer, whatever its status
ListsPeer(listing) == \E i \in 1..Len(listing) : IsGroupBPeer(listing[i])

TargetLookupFailed ==
    {[error |-> "Failed to get target server details: 404"],
     [error |-> "Target server URL not found"]}

\* C34: the peer was listed and chosen, and its descriptor is gone (deleted,
\* or the registry restarted) when send_message runs; the registry answers
\* the requests of send_message and MCP server 1 holds the id it registered
\* with.  Then the handler does not raise: it answers 200 with a payload
\* that carries the message_id of the request, the trace_id and, as the
\* response, an error of the failed lookup of the target.
C34_VanishedPeerIsLookupError ==
    [][\A post \in PostOutcomes, peer_result \in GraphQLResults :
          (/\ send_message("200", "200", post, peer_result)
           /\ fabric["mcp-server-1"].service_id # 0
           /\ ~DictHas(services, dispatcherA.target)) =>
              /\ dispatcherA'.pc = "done"
              /\ dispatcherA'.http = 200
              /\ dispatcherA'.payload.message_id = dispatcherA.message.message_id
              /\ dispatcherA'.payload.trace_id = dispatcherA.trace_id
              /\ dispatcherA'.sent[1].posted = None
              /\ dispatcherA'.payload.response \in TargetLookupFailed]_vars

(***************************************************************************)
(* Properties of the life of a process.                                    *)
(***************************************************************************)
\* process p holds an id and is not started again in the step
LivesOn(p) == fabric[p].service_id # 0 /\ tasks'[p].pc # "none"

\* the ids of the descriptors that carry the registration of process p
DescriptorsOf(svcs, p) ==
    {k \in Ids : DictHas(svcs, k) /\ SameRegistration(DictGet(svcs, k), Registration(p))}

\* C35: a process that holds a service_id keeps that id until the process
\* is started again; while it lives it never registers again, so that once
\* its descriptor is gone from the registry (deleted by any caller, or the
\* registry restarted) it stays gone; and every heartbeat it sends for the
\* missing descriptor is answered not-found and changes nothing in the
\* registry.
C35_IdKeptNeverRenewed ==
    [][\A p \in Processes :
          /\ LivesOn(p) =>
                /\ fabric'[p].service_id = fabric[p].service_id
                /\ DescriptorsOf(services', p) \subseteq DescriptorsOf(services, p)
                /\ ~DictHas(services, fabric[p].service_id) =>
                      ~DictHas(services', fabric[p].service_id)
          /\ (/\ send_heartbeat(p)
              /\ fabric[p].service_id # 0
              /\ registryUp
              /\ ~DictHas(services, fabric[p].service_id)) =>
                /\ tasks'[p].beat = "404"
                /\ services' = services]_vars

\* the registry was restarted under a process that holds an id: a heartbeat
\* was answered not-found, the registry can be reached, and the process is
\* not listed although another one is
C35_Witness ==
    \E p \in Processes :
        /\ fabric[p].service_id # 0
        /\ tasks[p].pc = "sleep"
        /\ tasks[p].beat = "404"
        /\ registryUp
        /\ DescriptorsOf(services, p) = {}
        /\ services # <<>>

\* the process has shut down and does nothing more until it is started
\* again
Stopped(p) == tasks[p].pc = "stopped"

\* C36: on shutdown a process that holds a service_id sends one DELETE for
\* that id, and one only: when the registry can be reached, the descriptor
\* of that id is not in the registry afterwards and the other descriptors
\* are what they were; a process without an id sends none and leaves the
\* registry as it is; when the DELETE fails, the shutdown completes all the
\* same; a process that has shut down sends nothing more.
C36_ShutdownDeregistersOnce ==
    [][\A p \in Processes :
          /\ shutdown_event(p) =>
                /\ Stopped(p)'
                /\ IF fabric[p].service_id = 0
                   THEN tasks'[p].bye = "none" /\ services' = services
                   ELSE IF registryUp
                   THEN /\ tasks'[p].bye \in {"200", "404"}
                        /\ tasks'[p].bye = "200" <=> DictHas(services, fabric[p].service_id)
                        /\ ~DictHas(services', fabric[p].service_id)
                        /\ services' = DictDel(services, fabric[p].service_id)
                   ELSE tasks'[p].bye = "failed" /\ services' = services
          /\ (Stopped(p) /\ Stopped(p)') =>
                /\ tasks'[p] = tasks[p]
                /\ DescriptorsOf(services', p) \subseteq DescriptorsOf(services, p)]_vars

\* one process has shut down and its descriptor is gone while another is
\* still listed; a second process has shut down although its DELETE failed
C36_Witness ==
    \E p, q \in Processes :
        /\ Stopped(p)
        /\ tasks[p].bye = "200"
        /\ fabric[p].service_id # 0
        /\ ~DictHas(services, fabric[p].service_id)
        /\ Stopped(q)
        /\ tasks[q].bye = "failed"
        /\ DictHas(services, fabric[q].service_id)

\* the requests that only read the registry
ReadOps == {"get_service", "get_all_services"}

\* C37: GET /registry/services/{id} and GET /registry/services, with or
\* without a type, with a type that is no service type (answered 400) and
\* with an unknown id (answered 404) included, leave the store as it was:
\* the same descriptors in the same order with the same status and
\* last_seen; no id is drawn and the registry's clock is not read.
C37_ReadsLeaveStore ==
    [][last'.op \in ReadOps =>
          /\ services' = services
          /\ uuids' = uuids
          /\ now' = now
          /\ (last'.op = "get_all_services" /\ last'.type \notin ServiceType \cup {""}) =>
                last'.http = 400
          /\ last'.http \in {200, 400, 404}]_vars

\* a list request with an invalid type was answered 400 while the registry
\* holds two descriptors, one of them not online
C37_Witness ==
    /\ last.op = "get_all_services"
    /\ last.type = "bogus"
    /\ last.http = 400
    /\ Len(services) = 2
    /\ \E i \in 1..Len(services) : services[i].value.status # "online"

\* C38: /api/send posts an envelope at most twice: once to the primary URL,
\* and a second time, to the alternative URL, exactly when the POST to the
\* primary raised; when the primary answered, with whatever status, the
\* answer of the client is made of the primary's answer alone; when both
\* POSTs raise, the client answers {success: false, error: "Failed to
\* process request", details, request_id} and does not raise.
C38_AtMostTwoAttempts ==
    simpleClient # None =>
        LET c == simpleClient[1]
        IN  /\ Len(c.posts) \in {1, 2}
            /\ c.posts[1] = MCP_SERVER_URL \o "/mcp/message"
            /\ Len(c.posts) = 2 <=> c.primary.kind = "raised"
            /\ Len(c.posts) = 2 => c.posts[2] = MCP_SERVER_ALT_URL \o "/mcp/message"
            /\ c.primary.kind = "answered" =>
                  \A other \in ServerAnswers(c.message.message_id) :
                      c.body = send_request_body(c.request_id, c.primary, other)
            /\ (c.primary.kind = "raised" /\ c.alternative.kind = "raised") =>
                  /\ DOMAIN c.body = {"success", "error", "details", "request_id"}
                  /\ c.body.success = FALSE
                  /\ c.body.error = "Failed to process request"
                  /\ c.body.request_id = c.request_id

\* both POSTs raised: two attempts, and the client answered with the failure
C38_Witness ==
    /\ simpleClient # None
    /\ simpleClient[1].primary.kind = "raised"
    /\ simpleClient[1].alternative.kind = "raised"
    /\ Len(simpleClient[1].posts) = 2
    /\ simpleClient[1].body.success = FALSE
    /\ simpleClient[1].body.error = "Failed to process request"

=============================================================================
